---- MODULE Spec2Model ----
(***************************************************************************)
(* The audio player of internal/audio/player.go: the control operations    *)
(* (Load, Play, Pause, Stop, Seek, SetVolume, SetSpeed, SetNextTrack), the *)
(* playback worker (playbackLoop / processAudio / handleTrackFinished), the*)
(* three single-slot channels and the control lock p.mu.                   *)
(*                                                                         *)
(* Units.  A decoder position is counted in decode chunks (one Decode call *)
(* of the fixed buffer size delivers one chunk), and a time.Duration is    *)
(* counted in the same unit, so Position() and Seek() convert exactly.     *)
(* Volume and speed are float64 values, counted in tenths (1.0 is 10),     *)
(* plus NaN, for which every comparison is false.                          *)
(*                                                                         *)
(* Locking.  Every critical section of p.mu except the one of Play is      *)
(* straight-line code without blocking calls, so it is one atomic action   *)
(* guarded by mu = "free".  Play sends on p.playing while it holds the     *)
(* lock; when the slot is full the call stays in the send with the lock    *)
(* held (mu = "PlayStopped" or "PlayPaused") until the worker receives.    *)
(* Code that runs without the lock (a channel operation, the read of       *)
(* p.state in the decode loop, Decode followed by Write) is one action per *)
(* access.                                                                 *)
(*                                                                         *)
(* History.  window and result record the control calls made so far (which *)
(* call returned last and with what), emitted the events of the last step; *)
(* the program has no such fields.                                         *)
(*                                                                         *)
(* Specifications.  Spec and FairSpec are the player under its three       *)
(* ordinary clients.  FlowSpec is the player under the calls of the        *)
(* integration test, FadeSpec the player with the fadeOut goroutines that  *)
(* Pause starts, CloseSpec and CloseFairSpec the player up to and after    *)
(* Close.  DecoderSpec is one FLACDecoder or MP3Decoder in detail (frames, *)
(* buffer sizes, SeekSample), driven by a caller of its own, and           *)
(* ListenerSpec is the dispatch of events to the listeners; in these two   *)
(* the player stands by.  QueueSpec is the playlist manager with its       *)
(* queue; EqualizerSpec, EqualizerRaceSpec, BiquadSpec, CrossfaderSpec,    *)
(* ReplayGainSpec, LimiterSpec and ChainSpec are the effects of package    *)
(* dsp, each driven by a caller of its own (EqualizerRaceSpec by two).     *)
(* PeekSpec is one Queue with Peek beside Next, BiquadRaceSpec one         *)
(* BiquadFilter under two callers, ListSpec one domain.Playlist whose      *)
(* tracks are added, removed and moved.                                    *)
(***************************************************************************)
EXTENDS Integers, Sequences, FiniteSets, TLC

\* ---- bounds -------------------------------------------------------------
MaxLoad == 2
MaxNext == 2
MaxLen == 1
\* decoder bench: frames per file, samples per frame, float32 values per
\* Decode buffer, samples handed to the caller
MaxFrames == 2
MaxFrameLen == 2
MaxBuf == 3
MaxOut == 5
\* dispatch bench: listeners, notifyListeners calls
MaxListeners == 2
MaxEvents == 3
\* fadeOut goroutines started, volume steps per fade-out
MaxFades == 2
FadeSteps == 2
\* playlist bench: tracks per playlist, playlists in the library, times a
\* playlist is selected, GetNextTrack calls per selection
MaxTracks == 3
MaxPlaylists == 1
MaxPlays == 2
MaxGot == 5
\* effects: samples per signal, bands of the equalizer, Process calls
MaxSig == 2
EqBands == 2
MaxPasses == 2
MaxLoads == 3
\* chain bench: effect objects, entries of the chain
MaxEffects == 3
MaxChain == 3

\* ---- program constants ---------------------------------------------------
NIL == 0
VolumeMin == 0
VolumeMax == 10
SpeedMin == 5
SpeedMax == 20
ChanCap == 1
\* the float64 value that is not a number
NaN == 1000
\* the samples SeekSample skips per Decode call (1024 in flac.go, here in
\* the scale of MaxFrameLen: some frames are longer, some are not)
SkipChunk == 1
\* the length m.history is cut to (100 in the source)
HistoryMax == 3
\* the float64 value 1.0 in units of a filter coefficient, and the distance
\* of two neighbouring float32 values in units of a float64 value
One == 8
F32 == 2
\* the largest gain of an equalizer band, in dB
GainMax == 12
\* a float64 value that is not zero and smaller than any unit of the model
Tiny == 999
\* the limiter: the value 1.0 in hundredths, threshold, ratio, and the
\* attack and release coefficients at a sample rate of 1000 Hz
Cent == 100
Threshold == 95
Ratio == 10
AttackCoeff == 37
ReleaseCoeff == 98

StateStopped == "stopped"
StatePlaying == "playing"
StatePaused == "paused"
StateError == "error"

EventStateChanged == "StateChanged"
EventTrackChanged == "TrackChanged"
EventPositionChanged == "PositionChanged"
EventVolumeChanged == "VolumeChanged"
EventTrackFinished == "TrackFinished"
EventError == "Error"

\* ---- inputs --------------------------------------------------------------
\* the decoders opened by Load are numbered 1..MaxLoad, the ones opened by
\* SetNextTrack MaxLoad+1..MaxLoad+MaxNext
LoadIds == 1..MaxLoad
NextIds == (MaxLoad + 1)..(MaxLoad + MaxNext)
DecIds == LoadIds \cup NextIds
TrackLens == 1..MaxLen
SeekInputs == (0 - 1)..(MaxLen + 1)
VolumeInputs == {0 - 1, 5, 11, NaN}
SpeedInputs == {4, 20, 21, NaN}
NSpawn == MaxNext
ListenerIds == 1..MaxListeners

ProcIds == 0..NSpawn

VARIABLES
  state,        \* p.state
  currentTrack, \* p.currentTrack (a track is named by the decoder opened for it)
  nextTrack,    \* p.nextTrack
  position,     \* p.position
  duration,     \* p.duration
  volume,       \* p.volume
  speed,        \* p.speed
  decoder,      \* p.decoder (a decoder id, or NIL)
  nextDecoder,  \* p.nextDecoder
  outPaused,    \* the output device is paused
  playing,      \* number of values buffered in channel p.playing
  stop,         \* number of values buffered in channel p.stop
  seekRequest,  \* the values buffered in channel p.seekRequest
  mu,           \* p.mu: "free", or held by a Play blocked in its send
  procs,        \* the playback goroutines: 0 is playbackLoop, the others are
                \* the processAudio goroutines started by handleTrackFinished
  decs,         \* the decoders opened so far
  emitted,      \* the events handed to notifyListeners by the last step
  window,       \* history: the control call whose effect is still owed
                \* (see the operators After... below)
  result,       \* the error returned by the last control call ("ok" for nil)
  client,       \* which operations the player's client uses (see Clients)
  media,        \* decoder bench: the file being decoded and the caller's buffer
  dcd,          \* decoder bench: the fields of the FLACDecoder / MP3Decoder
  pcm,          \* decoder bench: the samples the caller was handed, in order
  ret,          \* decoder bench: what the last Decode / SeekSample returned
  ended,        \* decoder bench: a Decode met the end of the stream and no
                \* SeekSample has returned nil since
  sought,       \* decoder bench: SeekSample has been called
  listeners,    \* dispatch bench: p.listeners
  calls,        \* dispatch bench: the goroutines started by notifyListeners
                \* that have not yet run their listener
  heard,        \* dispatch bench: the events each listener has received,
                \* in the order it received them
  sent,         \* dispatch bench: the number of notifyListeners calls so far
  made,         \* the control calls made so far by the client "flow"
  closing,      \* how far Close has come: "no", "stopped" (its Stop call
                \* has returned) or "closed" (Close has returned)
  output,       \* p.output is not nil
  outVolume,    \* the volume set on the output device
  fades,        \* the fadeOut goroutines started by Pause (tracked for the
                \* client "fade"; they write nothing but the output's volume)
  queue,        \* playlist bench: the fields of the Manager's Queue
  manager,      \* playlist bench: m.currentPlaylist and m.history
  got,          \* playlist bench: what the GetNextTrack calls since the
                \* last SetCurrentPlaylist returned, in order
  eq,           \* equalizer bench: the fields of the Equalizer and of its
                \* BiquadFilters
  eqRun,        \* equalizer bench: the calls in progress on the Equalizer
  eqOut,        \* equalizer bench: what the calls returned and observed
  filt,         \* biquad bench: a signal and the filters that process it
                \* whole and in parts
  fader,        \* crossfader bench: the fields of the Crossfader
  mixed,        \* crossfader bench: the last Mix call and its output
  rgain,        \* replay gain bench: the fields of the ReplayGain
  rgOut,        \* replay gain bench: the last Process call and its output
  limiter,      \* limiter bench: the fields of the Limiter
  limOut,       \* limiter bench: the last ProcessStereo call and the gains
                \* it applied
  chain,        \* chain bench: the fields of the EffectChain
  chainOut,     \* chain bench: the last call and the effects it applied
  playlist,     \* track list bench: the Tracks and TrackIDs of a Playlist
  moved         \* track list bench: the last call on the Playlist, the
                \* tracks it found and the error it returned

vars == <<state, currentTrack, nextTrack, position, duration, volume, speed,
          decoder, nextDecoder, outPaused, playing, stop, seekRequest, mu,
          procs, decs, emitted, window, result, client,
          media, dcd, pcm, ret, ended, sought, listeners, calls, heard, sent,
          made, closing, output, outVolume, fades,
          queue, manager, got, eq, eqRun, eqOut, filt, fader, mixed,
          rgain, rgOut, limiter, limOut, chain, chainOut, playlist, moved>>

\* the fields of Player that the control operations read and write
playerFields == <<state, currentTrack, nextTrack, position, duration, volume,
                  speed, decoder, nextDecoder, outPaused, decs>>
\* the handoff channels
signals == <<playing, stop, seekRequest>>
\* the decoder bench (see DecoderSpec)
bench == <<media, dcd, pcm, ret, ended, sought>>
\* the dispatch bench (see ListenerSpec)
dispatch == <<listeners, calls, heard, sent>>
\* the benches of the playlist manager and of the effects (see QueueSpec,
\* EqualizerSpec, EqualizerRaceSpec, BiquadSpec, CrossfaderSpec,
\* ReplayGainSpec, LimiterSpec, ChainSpec)
playlistB == <<queue, manager, got>>
equalizerB == <<eq, eqRun, eqOut>>
biquadB == <<filt>>
faderB == <<fader, mixed>>
gainB == <<rgain, rgOut>>
limiterB == <<limiter, limOut>>
chainB == <<chain, chainOut>>
listB == <<playlist, moved>>
labs == <<playlistB, equalizerB, biquadB, faderB, gainB, limiterB, chainB,
          listB>>
\* what no step of the player touches
beside == <<bench, dispatch, labs>>
\* what the playback goroutines leave alone
aside == <<made, closing, output, outVolume, fades>>

\* The callers of the player.  A behaviour has one kind of client, fixed at
\* the start:
\*   "transport" loads up to MaxLoad tracks and uses Play, Pause, Stop, Seek;
\*   "settings" loads one track and uses Play, Pause, Seek, SetVolume and
\*     SetSpeed;
\*   "gapless" queues up to MaxNext next tracks behind one Load and drives
\*     them with Play and Pause.
\* Three more clients drive the specifications of their own:
\*   "flow" makes the calls of the integration test, in its order;
\*   "fade" uses Load, Play, Pause and SetVolume, and its Pause calls
\*     start the fadeOut goroutines that are tracked in fades;
\*   "shutdown" uses Load, Play and Seek, then calls Close and nothing more.
Clients == {"transport", "settings", "gapless"}

FlowOrder == <<"Load", "Play", "Pause", "Stop", "Seek", "SetVolume">>

ClientOps(c) ==
  IF c = "flow"
  THEN IF made < Len(FlowOrder) THEN {FlowOrder[made + 1]} ELSE {}
  ELSE IF c = "fade"
  THEN {"Load", "Play", "Pause", "SetVolume"}
  ELSE IF c = "shutdown"
  THEN IF closing = "no" THEN {"Load", "Play", "Seek", "Close"} ELSE {}
  ELSE IF c = "transport" THEN {"Load", "Play", "Pause", "Stop", "Seek"}
  ELSE IF c = "settings"
  THEN {"Load", "Play", "Pause", "Seek", "SetVolume", "SetSpeed"}
  ELSE {"Load", "Play", "Pause", "SetNextTrack"}

LoadBudget(c) == IF c = "transport" THEN MaxLoad ELSE 1

NextBudget(c) == IF c = "gapless" THEN MaxNext ELSE 0

\* a control call of the client returns (the client "flow" counts its calls)
Called ==
  /\ client' = client
  /\ made' = IF client = "flow" THEN made + 1 ELSE made
  /\ UNCHANGED beside

\* a fadeOut goroutine that has just been started
NewFade == [pc |-> "start", startVolume |-> 0, i |-> 0]

\* ---- decoder (decoder.Decoder, as implemented by FLACDecoder/MP3Decoder) --
Unopened == [st |-> "unopened", cur |-> 0, eof |-> FALSE, len |-> 0]

NewDecoder(len) == [st |-> "open", cur |-> 0, eof |-> FALSE, len |-> len]

\* the number of decoders opened so far among ids
nOpened(ids) == Cardinality({d \in ids : decs[d].st # "unopened"})

\* Close: closes the underlying file; the decoder's own fields stay
DecClose(ds, d) == [ds EXCEPT ![d].st = "closed"]

\* SeekSample succeeds on an open file for 0 <= sample <= sampleCount
DecSeekOk(d, p) == decs[d].st = "open" /\ p >= 0 /\ p <= decs[d].len

DecSeek(ds, d, p) == [ds EXCEPT ![d].cur = p, ![d].eof = FALSE]

\* Decode: "eos" once eof is set or when the stream is exhausted, "err" when
\* the file is closed or the stream is corrupt, else one chunk
DecodeResult(d, corrupt) ==
  IF decs[d].eof THEN "eos"
  ELSE IF decs[d].st # "open" \/ corrupt THEN "err"
  ELSE IF decs[d].cur >= decs[d].len THEN "eos"
  ELSE "ok"

DecDecode(ds, d, res) ==
  IF res = "ok" THEN [ds EXCEPT ![d].cur = @ + 1]
  ELSE IF res = "eos" THEN [ds EXCEPT ![d].eof = TRUE]
  ELSE ds

\* ---- helpers --------------------------------------------------------------
\* setState: a StateChanged event only when the state changes
SetStateEvents(new) == IF state # new THEN <<EventStateChanged>> ELSE <<>>

\* ---- history of the control calls ------------------------------------------
\* window.kind = "stop": a Stop has returned and no Play, Seek or Load was
\*   called since; arg is the decoder that was active when the Stop took the
\*   player out of Playing or Paused (NIL for a Stop that found no decoder,
\*   or the player Stopped or in Error).
\* window.kind = "load": a Load has succeeded and no control operation was
\*   called since; arg is the decoder it opened.
\* window.kind = "seek": a Seek(arg) was accepted, no Seek, Stop or Load was
\*   called since, and the worker has not yet set the position to arg.
NoWindow == [kind |-> "none", arg |-> 0]

Window(kind, arg) == [kind |-> kind, arg |-> arg]

AfterPlay(w) == IF w.kind \in {"stop", "load"} THEN NoWindow ELSE w

AfterOther(w) == IF w.kind = "load" THEN NoWindow ELSE w

AfterSeekDone(w, pos) == IF w = Window("seek", pos) THEN NoWindow ELSE w

IdleProc == [pc |-> "idle", dec |-> NIL, pos |-> 0, gap |-> FALSE]
NoProc == [pc |-> "none", dec |-> NIL, pos |-> 0, gap |-> FALSE]

\* a goroutine leaves processAudio: playbackLoop goes back to its select,
\* a goroutine started by handleTrackFinished ends
Return(i) == IF i = 0 THEN IdleProc ELSE NoProc

\* a control call has been made: the end-of-stream reports made before it no
\* longer count as "no control operation since"
CtlSeen(ps) == [i \in ProcIds |-> [ps[i] EXCEPT !.gap = FALSE]]

\* ---- decoder bench: FLACDecoder and MP3Decoder in detail -----------------
\* A file is a sequence of frames.  A FLAC frame of length n holds n
\* inter-channel samples; an MP3 frame of length n is decoded by the library
\* into n stereo pairs, that is 2n interleaved int16 values.  A bad frame is
\* one the library fails to parse; resync says whether the library's reader
\* has moved past a bad frame when it reports the failure.  buf is
\* len(buffer) of the caller's Decode calls, in float32 values.
ErrEndOfStream == "EndOfStream"

FrameKinds == [len : 1..MaxFrameLen, bad : BOOLEAN]

FrameSeqs == UNION {[1..n -> FrameKinds] : n \in 0..MaxFrames}

Media == [codec : {"flac", "mp3"}, frames : FrameSeqs, channels : {1, 2},
          resync : BOOLEAN, buf : 1..MaxBuf]

\* MP3Decoder always reports two channels (part_000:33)
Playable == {f \in Media : f.codec = "mp3" => f.channels = 2}

NoMedia == [codec |-> "none", frames |-> <<>>, channels |-> 1,
            resync |-> FALSE, buf |-> 1]

Min(a, b) == IF a < b THEN a ELSE b

RECURSIVE SumLen(_, _)
\* the samples held by the first k frames of f
SumLen(f, k) == IF k = 0 THEN 0 ELSE SumLen(f, k - 1) + f.frames[k].len

\* BaseDecoder.sampleCount
SampleCount(f) == SumLen(f, Len(f.frames))

\* the units Decode hands out are numbered 1, 2, ... in stream order:
\* inter-channel samples for FLAC, int16 values for MP3
Units(f) == IF f.codec = "mp3" THEN 2 * SampleCount(f) ELSE SampleCount(f)

Ids(from, n) == [j \in 1..n |-> from + j]

\* the decoder after construction.  frames is d.stream.Frames (the frames
\* parsed so far), next the frame the library's reader stands at,
\* currentFrame the index into frames (FLAC) or the frame the library has
\* buffered (MP3), off the int16 values already taken from that frame (MP3),
\* broken says that d.decoder is nil
NewDcd == [frames |-> <<>>, next |-> 1, currentFrame |-> 0, off |-> 0,
           currentSample |-> 0, eof |-> FALSE, broken |-> FALSE]

Returned(d, n, err, wrote, atEnd) ==
  [d |-> d, n |-> n, err |-> err, wrote |-> wrote, atEnd |-> atEnd]

RECURSIVE FlacFill(_, _, _, _)
\* the loop of FLACDecoder.Decode; samplesRead is Len(wrote)
FlacFill(f, d, samplesNeeded, wrote) ==
  IF Len(wrote) >= samplesNeeded
  THEN Returned([d EXCEPT !.currentSample = @ + Len(wrote)],
                Len(wrote), "nil", wrote, FALSE)
  ELSE IF d.currentFrame >= Len(d.frames)
  THEN IF d.next > Len(f.frames)
       THEN IF Len(wrote) > 0
            THEN Returned([d EXCEPT !.eof = TRUE], Len(wrote), "nil", wrote, TRUE)
            ELSE Returned([d EXCEPT !.eof = TRUE], 0, ErrEndOfStream, wrote, TRUE)
       ELSE IF f.frames[d.next].bad
       THEN Returned([d EXCEPT !.next = IF f.resync THEN @ + 1 ELSE @],
                     Len(wrote), "ParseFailed", wrote, FALSE)
       ELSE FlacFill(f, [d EXCEPT !.frames = Append(@, d.next), !.next = @ + 1],
                     samplesNeeded, wrote)
  ELSE LET k == d.frames[d.currentFrame + 1]
           \* frameIndex starts at 0 whenever the frame is visited
           frameIndex == Min(samplesNeeded - Len(wrote), f.frames[k].len)
       IN FlacFill(f,
                   [d EXCEPT !.currentFrame =
                      IF frameIndex >= f.frames[k].len THEN @ + 1 ELSE @],
                   samplesNeeded,
                   wrote \o Ids(SumLen(f, k - 1), frameIndex))

\* FLACDecoder.Decode with a buffer of len float32 values
FlacDecode(f, d, len) ==
  IF d.eof THEN Returned(d, 0, ErrEndOfStream, <<>>, FALSE)
  ELSE FlacFill(f, d, len \div f.channels, <<>>)

RECURSIVE FlacSkip(_, _, _)
\* the skip loop of FLACDecoder.SeekSample
FlacSkip(f, d, sample) ==
  IF d.currentSample >= sample THEN [d |-> d, err |-> "nil"]
  ELSE LET toSkip == Min(sample - d.currentSample, SkipChunk)
           r == FlacDecode(f, d, toSkip * f.channels)
       IN IF r.err # "nil" THEN [d |-> r.d, err |-> r.err]
          ELSE FlacSkip(f, r.d, sample)

FlacSeekSampleClamped(f, d, sample) ==
  IF sample < 0 THEN FlacSkip(f, NewDcd, 0)
  ELSE FlacSkip(f, NewDcd, Min(sample, SampleCount(f)))

\* FLACDecoder.SeekSample
FlacSeekSample(f, d, sample) ==
  IF sample < 0 \/ sample > SampleCount(f)
  THEN [d |-> d, err |-> "OutOfRange"]
  ELSE FlacSkip(f, NewDcd, sample)

\* (*mp3.Decoder).Read asked for request int16 values: it hands out what is
\* left of the frame it has buffered, after decoding the next frame when
\* that buffer is empty
Mp3Read(f, d, request) ==
  IF d.currentFrame = 0 \/ d.off >= 2 * f.frames[d.currentFrame].len
  THEN IF d.next > Len(f.frames)
       THEN [d |-> d, n |-> 0, err |-> "EOF", from |-> 0]
       ELSE IF f.frames[d.next].bad
       THEN [d |-> [d EXCEPT !.next = IF f.resync THEN @ + 1 ELSE @],
             n |-> 0, err |-> "ReadFailed", from |-> 0]
       ELSE LET n == Min(request, 2 * f.frames[d.next].len)
            IN [d |-> [d EXCEPT !.currentFrame = d.next, !.next = @ + 1,
                                !.off = n],
                n |-> n, err |-> "nil", from |-> 2 * SumLen(f, d.next - 1)]
  ELSE LET n == Min(request, 2 * f.frames[d.currentFrame].len - d.off)
       IN [d |-> [d EXCEPT !.off = @ + n], n |-> n, err |-> "nil",
           from |-> 2 * SumLen(f, d.currentFrame - 1) + d.off]

\* MP3Decoder.Decode with a buffer of len float32 values (the bench keeps
\* len far below maxBufferSize); wrote is what was stored in the buffer,
\* n the count returned
Mp3Decode(f, d, len) ==
  IF d.eof THEN Returned(d, 0, ErrEndOfStream, <<>>, FALSE)
  ELSE IF len = 0 THEN Returned(d, 0, "nil", <<>>, FALSE)
  ELSE IF d.broken THEN Returned(d, 0, "panic", <<>>, FALSE)
  ELSE LET r == Mp3Read(f, d, len)
           samplesRead == r.n
       IN IF r.err = "ReadFailed"
          THEN Returned(r.d, 0, "DecodeFailed", <<>>, FALSE)
          ELSE IF r.n = 0
          THEN Returned([r.d EXCEPT !.eof = TRUE], 0, ErrEndOfStream, <<>>, TRUE)
          ELSE Returned([r.d EXCEPT !.currentSample =
                                      @ + (samplesRead \div f.channels)],
                        samplesRead \div f.channels, "nil",
                        Ids(r.from, samplesRead), FALSE)

\* MP3Decoder.SeekSample: the reader is moved to byte 4 * sample of the
\* compressed file, which is frame at, and mp3.NewDecoder there succeeds or
\* not
Mp3SeekSample(f, d, sample, at, recreated) ==
  IF sample < 0 THEN [d |-> d, err |-> "Negative"]
  ELSE IF sample > SampleCount(f) THEN [d |-> d, err |-> "OutOfRange"]
  ELSE IF ~recreated
  THEN [d |-> [d EXCEPT !.broken = TRUE, !.next = at, !.currentFrame = 0,
                        !.off = 0],
        err |-> "RecreateFailed"]
  ELSE [d |-> [NewDcd EXCEPT !.next = at, !.currentSample = sample],
        err |-> "nil"]

\* what the bench's caller takes out of its buffer after a Decode that
\* returned (n, nil): the n samples per channel that Decode reports
\* (the slice processAudio takes is OutputSlice)
Taken(f, r) ==
  IF r.err # "nil" THEN <<>>
  ELSE IF f.codec = "mp3" THEN SubSeq(r.wrote, 1, r.n * f.channels)
  ELSE r.wrote

\* samples := p.buffer[:n*2] in processAudio, for a buffer of capacity cap:
\* the length of the slice handed to the output, or a panic (slice bounds
\* out of range) when n*2 exceeds the capacity
OutputSlice(n, cap) ==
  IF n * 2 > cap THEN [panic |-> TRUE, len |-> 0]
  ELSE [panic |-> FALSE, len |-> n * 2]

NoRet == [op |-> "none", n |-> 0, err |-> "nil", atEnd |-> FALSE, wrote |-> 0]

\* ---- the state after NewPlayer ---------------------------------------------
InitPlayer ==
  /\ state = StateStopped
  /\ currentTrack = NIL
  /\ nextTrack = NIL
  /\ position = 0
  /\ duration = 0
  /\ volume = 10
  /\ speed = 10
  /\ decoder = NIL
  /\ nextDecoder = NIL
  /\ outPaused = FALSE
  /\ playing = 0
  /\ stop = 0
  /\ seekRequest = <<>>
  /\ mu = "free"
  /\ procs = [i \in ProcIds |-> IF i = 0 THEN IdleProc ELSE NoProc]
  /\ decs = [d \in DecIds |-> Unopened]
  /\ emitted = <<>>
  /\ window = NoWindow
  /\ result = "ok"
  /\ made = 0
  /\ closing = "no"
  /\ output = TRUE
  /\ outVolume = 10
  /\ fades = <<>>

\* the decoder bench is not in use
BenchIdle ==
  /\ media = NoMedia
  /\ dcd = NewDcd
  /\ pcm = <<>>
  /\ ret = NoRet
  /\ ended = FALSE
  /\ sought = FALSE

\* no listener is registered and no event has been dispatched
DispatchIdle ==
  /\ listeners = {}
  /\ calls = {}
  /\ heard = [l \in ListenerIds |-> <<>>]
  /\ sent = 0

\* the playlist manager and the effects are not in use
PlaylistIdle ==
  /\ queue = 0
  /\ manager = 0
  /\ got = 0

EqualizerIdle ==
  /\ eq = 0
  /\ eqRun = 0
  /\ eqOut = 0

BiquadIdle == filt = 0

FaderIdle ==
  /\ fader = 0
  /\ mixed = 0

GainIdle ==
  /\ rgain = 0
  /\ rgOut = 0

LimiterIdle ==
  /\ limiter = 0
  /\ limOut = 0

ChainIdle ==
  /\ chain = 0
  /\ chainOut = 0

ListIdle ==
  /\ playlist = 0
  /\ moved = 0

LabsIdle ==
  /\ PlaylistIdle
  /\ EqualizerIdle
  /\ BiquadIdle
  /\ FaderIdle
  /\ GainIdle
  /\ LimiterIdle
  /\ ChainIdle
  /\ ListIdle

Init ==
  /\ InitPlayer
  /\ client \in Clients
  /\ BenchIdle
  /\ DispatchIdle
  /\ LabsIdle

\* ---- control operations --------------------------------------------------
\* What each operation returns, as a function of the state it is called in.
LoadResult(track, created) ==
  IF track = NIL THEN "TrackNil"
  ELSE IF ~created THEN "CreateFailed"
  ELSE "ok"

PlayResult ==
  IF decoder = NIL THEN "NoTrackLoaded"
  ELSE IF state = StatePlaying THEN "AlreadyPlaying"
  ELSE "ok"

PauseResult == IF state # StatePlaying THEN "NotPlaying" ELSE "ok"

SeekResult(pos) ==
  IF decoder = NIL THEN "NoTrackLoaded"
  ELSE IF pos < 0 \/ pos > duration THEN "PositionOutOfRange"
  ELSE "ok"

\* the float64 comparisons a < b and a > b
FloatLess(a, b) == a # NaN /\ b # NaN /\ a < b

FloatGreater(a, b) == a # NaN /\ b # NaN /\ a > b

SetVolumeResult(v) ==
  IF FloatLess(v, VolumeMin) \/ FloatGreater(v, VolumeMax)
  THEN "VolumeOutOfRange" ELSE "ok"

SetSpeedResult(s) ==
  IF FloatLess(s, SpeedMin) \/ FloatGreater(s, SpeedMax)
  THEN "SpeedOutOfRange" ELSE "ok"

SetNextTrackResult(track, created) ==
  IF track # NIL /\ ~created THEN "NextCreateFailed" ELSE "ok"

\* Load(track): created says whether CreateDecoderForFile succeeds, len is the
\* length of the track's stream
Load(track, created, len) ==
  /\ result' = LoadResult(track, created)
  /\ "Load" \in ClientOps(client)
  /\ Called
  /\ UNCHANGED <<closing, output, outVolume, fades>>
  /\ mu = "free"
  /\ procs' = CtlSeen(procs)
  /\ UNCHANGED <<nextTrack, volume, speed, nextDecoder, outPaused, signals, mu>>
  /\ IF track = NIL
     THEN /\ emitted' = <<>>
          /\ window' = NoWindow
          /\ UNCHANGED <<state, currentTrack, position, duration, decoder, decs>>
     ELSE LET closed == IF decoder # NIL THEN DecClose(decs, decoder) ELSE decs
          IN IF ~created
             THEN /\ decs' = closed
                  /\ decoder' = NIL
                  /\ emitted' = <<>>
                  /\ window' = NoWindow
                  /\ UNCHANGED <<state, currentTrack, position, duration>>
             ELSE /\ nOpened(LoadIds) < LoadBudget(client)
                  /\ LET d == nOpened(LoadIds) + 1
                     IN /\ decs' = [closed EXCEPT ![d] = NewDecoder(len)]
                        /\ decoder' = d
                        /\ currentTrack' = d
                        /\ window' = Window("load", d)
                  /\ position' = 0
                  /\ duration' = len
                  /\ state' = StateStopped
                  /\ emitted' = SetStateEvents(StateStopped) \o <<EventTrackChanged>>

\* Play: p.playing <- true is a blocking send made with the lock held
Play ==
  /\ "Play" \in ClientOps(client)
  /\ Called
  /\ UNCHANGED <<closing, output, outVolume, fades>>
  /\ mu = "free"
  /\ window' = AfterPlay(window)
  /\ procs' = CtlSeen(procs)
  /\ UNCHANGED <<currentTrack, nextTrack, position, duration, volume, speed,
                 decoder, nextDecoder, decs, stop, seekRequest>>
  /\ IF PlayResult # "ok"
     THEN /\ emitted' = <<>>
          /\ result' = PlayResult
          /\ UNCHANGED <<state, outPaused, playing, mu>>
     ELSE IF state = StatePaused
     THEN /\ outPaused' = FALSE
          /\ state' = StatePlaying
          /\ emitted' = <<EventStateChanged>>
          /\ IF playing < ChanCap
             THEN /\ playing' = playing + 1
                  /\ result' = "ok"
                  /\ UNCHANGED mu
             ELSE /\ mu' = "PlayPaused"
                  /\ UNCHANGED <<playing, result>>
     ELSE IF state = StateStopped
     THEN /\ state' = StatePlaying
          /\ emitted' = <<EventStateChanged>>
          /\ IF playing < ChanCap
             THEN /\ playing' = playing + 1
                  /\ outPaused' = FALSE
                  /\ result' = "ok"
                  /\ UNCHANGED mu
             ELSE /\ mu' = "PlayStopped"
                  /\ UNCHANGED <<playing, outPaused, result>>
     ELSE /\ emitted' = <<>>
          /\ result' = "ok"
          /\ UNCHANGED <<state, outPaused, playing, mu>>

\* the send of a blocked Play completes once the worker has emptied the slot
PlaySend ==
  /\ result' = "ok"
  /\ UNCHANGED <<client, beside, aside>>
  /\ mu \in {"PlayPaused", "PlayStopped"}
  /\ playing < ChanCap
  /\ playing' = playing + 1
  /\ outPaused' = IF mu = "PlayStopped" THEN FALSE ELSE outPaused
  /\ mu' = "free"
  /\ emitted' = <<>>
  /\ UNCHANGED <<state, currentTrack, nextTrack, position, duration, volume,
                 speed, decoder, nextDecoder, decs, stop, seekRequest, procs,
                 window>>

\* Pause (the fade-out goroutine it starts only writes the output's volume)
Pause ==
  /\ result' = PauseResult
  /\ "Pause" \in ClientOps(client)
  /\ Called
  /\ UNCHANGED <<closing, output, outVolume>>
  /\ IF PauseResult = "ok" /\ client = "fade"
     THEN /\ Len(fades) < MaxFades
          /\ fades' = Append(fades, NewFade)
     ELSE UNCHANGED fades
  /\ mu = "free"
  /\ window' = AfterOther(window)
  /\ procs' = CtlSeen(procs)
  /\ UNCHANGED <<currentTrack, nextTrack, position, duration, volume, speed,
                 decoder, nextDecoder, decs, signals, mu>>
  /\ IF PauseResult # "ok"
     THEN /\ emitted' = <<>>
          /\ UNCHANGED <<state, outPaused>>
     ELSE /\ outPaused' = TRUE
          /\ state' = StatePaused
          /\ emitted' = <<EventStateChanged>>

\* the body of Stop, which Close runs as well
StopCall ==
  /\ result' = "ok"
  /\ mu = "free"
  /\ procs' = CtlSeen(procs)
  /\ UNCHANGED <<currentTrack, nextTrack, duration, volume, speed, decoder,
                 nextDecoder, decs, playing, seekRequest, mu>>
  /\ IF state = StateStopped
     THEN /\ emitted' = <<>>
          /\ window' = Window("stop", NIL)
          /\ UNCHANGED <<state, position, outPaused, stop>>
     ELSE /\ stop' = IF stop < ChanCap THEN stop + 1 ELSE stop
          /\ outPaused' = TRUE
          /\ position' = 0
          /\ state' = StateStopped
          /\ emitted' = <<EventStateChanged>>
          /\ window' = Window("stop", IF state = StateError THEN NIL ELSE decoder)

Stop ==
  /\ "Stop" \in ClientOps(client)
  /\ Called
  /\ UNCHANGED <<closing, output, outVolume, fades>>
  /\ StopCall

Seek(pos) ==
  /\ result' = SeekResult(pos)
  /\ "Seek" \in ClientOps(client)
  /\ Called
  /\ UNCHANGED <<closing, output, outVolume, fades>>
  /\ mu = "free"
  /\ procs' = CtlSeen(procs)
  /\ emitted' = <<>>
  /\ UNCHANGED <<playerFields, playing, stop, mu>>
  /\ IF SeekResult(pos) # "ok"
     THEN /\ window' = NoWindow
          /\ UNCHANGED seekRequest
     ELSE /\ seekRequest' = IF Len(seekRequest) < ChanCap
                            THEN Append(seekRequest, pos)
                            ELSE seekRequest
          /\ window' = Window("seek", pos)

\* the range check of SetVolume and SetSpeed runs before the lock is taken
SetVolume(v) ==
  /\ result' = SetVolumeResult(v)
  /\ "SetVolume" \in ClientOps(client)
  /\ Called
  /\ UNCHANGED <<closing, output, fades>>
  /\ outVolume' = IF SetVolumeResult(v) = "ok" /\ output THEN v ELSE outVolume
  /\ procs' = CtlSeen(procs)
  /\ window' = AfterOther(window)
  /\ UNCHANGED <<state, currentTrack, nextTrack, position, duration, speed,
                 decoder, nextDecoder, outPaused, decs, signals, mu>>
  /\ IF SetVolumeResult(v) # "ok"
     THEN /\ emitted' = <<>>
          /\ UNCHANGED volume
     ELSE /\ mu = "free"
          /\ volume' = v
          /\ emitted' = <<EventVolumeChanged>>

SetSpeed(s) ==
  /\ result' = SetSpeedResult(s)
  /\ "SetSpeed" \in ClientOps(client)
  /\ Called
  /\ UNCHANGED <<closing, output, outVolume, fades>>
  /\ procs' = CtlSeen(procs)
  /\ window' = AfterOther(window)
  /\ emitted' = <<>>
  /\ UNCHANGED <<state, currentTrack, nextTrack, position, duration, volume,
                 decoder, nextDecoder, outPaused, decs, signals, mu>>
  /\ IF SetSpeedResult(s) # "ok"
     THEN UNCHANGED speed
     ELSE /\ mu = "free"
          /\ speed' = s

SetNextTrack(track, created, len) ==
  /\ result' = SetNextTrackResult(track, created)
  /\ "SetNextTrack" \in ClientOps(client)
  /\ Called
  /\ UNCHANGED <<closing, output, outVolume, fades>>
  /\ mu = "free"
  /\ procs' = CtlSeen(procs)
  /\ window' = AfterOther(window)
  /\ emitted' = <<>>
  /\ UNCHANGED <<state, currentTrack, position, duration, volume, speed,
                 decoder, outPaused, signals, mu>>
  /\ IF track = NIL
     THEN /\ nextTrack' = NIL
          /\ decs' = IF nextDecoder # NIL THEN DecClose(decs, nextDecoder) ELSE decs
          /\ nextDecoder' = NIL
     ELSE IF ~created
     THEN UNCHANGED <<nextTrack, nextDecoder, decs>>
     ELSE /\ nOpened(NextIds) < NextBudget(client)
          /\ LET d == MaxLoad + nOpened(NextIds) + 1
             IN /\ decs' = [decs EXCEPT ![d] = NewDecoder(len)]
                /\ nextTrack' = d
                /\ nextDecoder' = d

\* ---- playback worker -------------------------------------------------------
SetProc(i, rec) == [procs EXCEPT ![i] = rec]

SetPc(i, pc) == [procs EXCEPT ![i].pc = pc]

\* go p.processAudio(): the new goroutine takes the first unused slot
Spawn(ps) ==
  LET free == {j \in 1..NSpawn : ps[j].pc = "none"}
      j == CHOOSE k \in free : \A m \in free : k <= m
  IN [ps EXCEPT ![j] = [NoProc EXCEPT !.pc = "paStart"]]

\* playbackLoop, case <-p.playing
RecvPlaying ==
  /\ UNCHANGED <<client, result, beside, aside>>
  /\ procs[0].pc = "idle"
  /\ playing > 0
  /\ playing' = playing - 1
  /\ procs' = SetPc(0, "paStart")
  /\ emitted' = <<>>
  /\ UNCHANGED <<playerFields, stop, seekRequest, mu, window>>

\* playbackLoop, case <-p.stop: the receive, then the locked teardown
RecvStop ==
  /\ UNCHANGED <<client, result, beside, aside>>
  /\ procs[0].pc = "idle"
  /\ stop > 0
  /\ stop' = stop - 1
  /\ procs' = SetPc(0, "stopLock")
  /\ emitted' = <<>>
  /\ UNCHANGED <<playerFields, playing, seekRequest, mu, window>>

StopTeardown ==
  /\ UNCHANGED <<client, result, beside, aside>>
  /\ procs[0].pc = "stopLock"
  /\ mu = "free"
  /\ IF decoder # NIL
     THEN /\ decs' = DecClose(decs, decoder)
          /\ decoder' = NIL
     ELSE UNCHANGED <<decs, decoder>>
  /\ procs' = SetPc(0, "idle")
  /\ emitted' = <<>>
  /\ UNCHANGED <<state, currentTrack, nextTrack, position, duration, volume,
                 speed, nextDecoder, outPaused, signals, mu, window>>

\* playbackLoop, case position := <-p.seekRequest: the receive, then the
\* locked seek on p.decoder
RecvSeek ==
  /\ UNCHANGED <<client, result, beside, aside>>
  /\ procs[0].pc = "idle"
  /\ seekRequest # <<>>
  /\ seekRequest' = Tail(seekRequest)
  /\ procs' = SetProc(0, [procs[0] EXCEPT !.pc = "seekLock", !.pos = Head(seekRequest)])
  /\ emitted' = <<>>
  /\ UNCHANGED <<playerFields, playing, stop, mu, window>>

IdleSeek ==
  /\ UNCHANGED <<client, result, beside, aside>>
  /\ procs[0].pc = "seekLock"
  /\ mu = "free"
  /\ IF decoder # NIL /\ DecSeekOk(decoder, procs[0].pos)
     THEN /\ decs' = DecSeek(decs, decoder, procs[0].pos)
          /\ position' = procs[0].pos
          /\ emitted' = <<EventPositionChanged>>
          /\ window' = AfterSeekDone(window, procs[0].pos)
     ELSE /\ emitted' = <<>>
          /\ UNCHANGED <<decs, position, window>>
  /\ procs' = SetProc(0, IdleProc)
  /\ UNCHANGED <<state, currentTrack, nextTrack, duration, volume, speed,
                 decoder, nextDecoder, outPaused, signals, mu>>

\* playbackLoop, case <-ticker.C: p.state is read without the lock; a tick in
\* another state does nothing
Tick ==
  /\ UNCHANGED <<client, result, beside, aside>>
  /\ procs[0].pc = "idle"
  /\ state = StatePlaying
  /\ procs' = SetPc(0, "tickLock")
  /\ emitted' = <<>>
  /\ UNCHANGED <<playerFields, signals, mu, window>>

TickNotify ==
  /\ UNCHANGED <<client, result, beside, aside>>
  /\ procs[0].pc = "tickLock"
  /\ mu = "free"
  /\ procs' = SetPc(0, "idle")
  /\ emitted' = <<EventPositionChanged>>
  /\ UNCHANGED <<playerFields, signals, mu, window>>

\* processAudio: dec := p.decoder under the read lock
PaStart(i) ==
  /\ UNCHANGED <<client, result, beside, aside>>
  /\ procs[i].pc = "paStart"
  /\ mu = "free"
  /\ procs' = IF decoder = NIL \/ ~output
              THEN SetProc(i, Return(i))
              ELSE SetProc(i, [procs[i] EXCEPT !.pc = "paLoop", !.dec = decoder])
  /\ emitted' = <<>>
  /\ UNCHANGED <<playerFields, signals, mu, window>>

\* for p.state == StatePlaying (read without the lock)
PaLoop(i) ==
  /\ UNCHANGED <<client, result, beside, aside>>
  /\ procs[i].pc = "paLoop"
  /\ procs' = IF state = StatePlaying
              THEN SetPc(i, "paSelect")
              ELSE SetProc(i, Return(i))
  /\ emitted' = <<>>
  /\ UNCHANGED <<playerFields, signals, mu, window>>

\* select { case <-p.seekRequest / case <-p.stop / default }
PaSelect(i) ==
  /\ UNCHANGED <<client, result, beside, aside>>
  /\ procs[i].pc = "paSelect"
  /\ emitted' = <<>>
  /\ UNCHANGED <<playerFields, playing, mu, window>>
  /\ \/ /\ seekRequest # <<>>
        /\ seekRequest' = Tail(seekRequest)
        /\ procs' = SetProc(i, [procs[i] EXCEPT !.pc = "paSeek", !.pos = Head(seekRequest)])
        /\ UNCHANGED stop
     \/ /\ stop > 0
        /\ stop' = stop - 1
        /\ procs' = SetProc(i, Return(i))
        /\ UNCHANGED seekRequest
     \/ /\ seekRequest = <<>>
        /\ stop = 0
        /\ procs' = SetPc(i, "paDecode")
        /\ UNCHANGED <<stop, seekRequest>>

\* the locked seek on the decoder processAudio captured
PaSeek(i) ==
  /\ UNCHANGED <<client, result, beside, aside>>
  /\ procs[i].pc = "paSeek"
  /\ mu = "free"
  /\ IF DecSeekOk(procs[i].dec, procs[i].pos)
     THEN /\ decs' = DecSeek(decs, procs[i].dec, procs[i].pos)
          /\ position' = procs[i].pos
          /\ window' = AfterSeekDone(window, procs[i].pos)
     ELSE UNCHANGED <<decs, position, window>>
  /\ procs' = SetProc(i, [procs[i] EXCEPT !.pc = "paLoop", !.pos = 0])
  /\ emitted' = <<>>
  /\ UNCHANGED <<state, currentTrack, nextTrack, duration, volume, speed,
                 decoder, nextDecoder, outPaused, signals, mu>>

\* n, err := dec.Decode(...) and out.Write(samples), both without the lock
\* (the output is touched by nothing else that is modelled): a decode error
\* or end of stream leaves the loop, an output error is logged and the loop
\* continues, else the position is updated next
PaDecode(i, corrupt, written) ==
  /\ UNCHANGED <<client, result, beside, aside>>
  /\ procs[i].pc = "paDecode"
  /\ LET d == procs[i].dec
         res == DecodeResult(d, corrupt)
     IN /\ decs' = DecDecode(decs, d, res)
        /\ procs' = SetProc(i,
             IF res = "ok"
             THEN [procs[i] EXCEPT !.pc = IF written THEN "paPos" ELSE "paLoop"]
             ELSE IF res = "err" THEN [procs[i] EXCEPT !.pc = "paErr"]
             ELSE [procs[i] EXCEPT !.pc = "paEos",
                     !.gap = (d = decoder /\ nextDecoder # NIL /\ nextTrack # NIL
                              /\ state = StatePlaying)])
  /\ emitted' = <<>>
  /\ UNCHANGED <<state, currentTrack, nextTrack, position, duration, volume,
                 speed, decoder, nextDecoder, outPaused, signals, mu, window>>

\* p.position = dec.Position() under the lock
PaPos(i) ==
  /\ UNCHANGED <<client, result, beside, aside>>
  /\ procs[i].pc = "paPos"
  /\ mu = "free"
  /\ position' = decs[procs[i].dec].cur
  /\ procs' = SetPc(i, "paLoop")
  /\ emitted' = <<>>
  /\ UNCHANGED <<state, currentTrack, nextTrack, duration, volume, speed,
                 decoder, nextDecoder, outPaused, decs, signals, mu, window>>

\* a decode error: setState(StateError) under the lock, then return
PaErr(i) ==
  /\ UNCHANGED <<client, result, beside, aside>>
  /\ procs[i].pc = "paErr"
  /\ mu = "free"
  /\ state' = StateError
  /\ emitted' = SetStateEvents(StateError)
  /\ procs' = SetProc(i, Return(i))
  /\ UNCHANGED <<currentTrack, nextTrack, position, duration, volume, speed,
                 decoder, nextDecoder, outPaused, decs, signals, mu, window>>

\* handleTrackFinished with the setState(StateStopped) of its else branch left
\* out
handleTrackFinishedNoStop(i) ==
  /\ UNCHANGED <<client, result, beside, aside>>
  /\ procs[i].pc = "paEos"
  /\ mu = "free"
  /\ UNCHANGED <<volume, speed, outPaused, signals, mu, window>>
  /\ IF nextDecoder # NIL /\ nextTrack # NIL
     THEN /\ decs' = IF decoder # NIL THEN DecClose(decs, decoder) ELSE decs
          /\ decoder' = nextDecoder
          /\ currentTrack' = nextTrack
          /\ position' = 0
          /\ duration' = decs[nextDecoder].len
          /\ nextDecoder' = NIL
          /\ nextTrack' = NIL
          /\ emitted' = <<EventTrackChanged>>
          /\ procs' = IF state = StatePlaying
                      THEN Spawn(SetProc(i, Return(i)))
                      ELSE SetProc(i, Return(i))
          /\ UNCHANGED state
     ELSE /\ UNCHANGED state
          /\ position' = 0
          /\ emitted' = <<EventTrackFinished>>
          /\ procs' = SetProc(i, Return(i))
          /\ UNCHANGED <<currentTrack, nextTrack, duration, decoder, nextDecoder, decs>>

\* handleTrackFinished, then the return of processAudio
handleTrackFinished(i) ==
  /\ UNCHANGED <<client, result, beside, aside>>
  /\ procs[i].pc = "paEos"
  /\ mu = "free"
  /\ UNCHANGED <<volume, speed, outPaused, signals, mu, window>>
  /\ IF nextDecoder # NIL /\ nextTrack # NIL
     THEN /\ decs' = IF decoder # NIL THEN DecClose(decs, decoder) ELSE decs
          /\ decoder' = nextDecoder
          /\ currentTrack' = nextTrack
          /\ position' = 0
          /\ duration' = decs[nextDecoder].len
          /\ nextDecoder' = NIL
          /\ nextTrack' = NIL
          /\ emitted' = <<EventTrackChanged>>
          /\ procs' = IF state = StatePlaying
                      THEN Spawn(SetProc(i, Return(i)))
                      ELSE SetProc(i, Return(i))
          /\ UNCHANGED state
     ELSE /\ state' = StateStopped
          /\ position' = 0
          /\ emitted' = SetStateEvents(StateStopped) \o <<EventTrackFinished>>
          /\ procs' = SetProc(i, Return(i))
          /\ UNCHANGED <<currentTrack, nextTrack, duration, decoder, nextDecoder, decs>>

\* ---- specification ----------------------------------------------------------
Control ==
  \/ \E t \in {NIL, 1}, c \in BOOLEAN, l \in TrackLens : Load(t, c, l)
  \/ Play
  \/ Pause
  \/ Stop
  \/ \E p \in SeekInputs : Seek(p)
  \/ \E v \in VolumeInputs : SetVolume(v)
  \/ \E s \in SpeedInputs : SetSpeed(s)
  \/ \E t \in {NIL, 1}, c \in BOOLEAN, l \in TrackLens : SetNextTrack(t, c, l)

\* the steps of the playbackLoop goroutine outside processAudio
LoopStep ==
  \/ RecvPlaying
  \/ RecvStop
  \/ StopTeardown
  \/ RecvSeek
  \/ IdleSeek
  \/ Tick
  \/ TickNotify

\* the steps of goroutine i inside processAudio
AudioStep(i) ==
  \/ PaStart(i)
  \/ PaLoop(i)
  \/ PaSelect(i)
  \/ PaSeek(i)
  \/ \E c \in BOOLEAN, w \in BOOLEAN : PaDecode(i, c, w)
  \/ PaPos(i)
  \/ PaErr(i)
  \/ handleTrackFinished(i)

Next ==
  \/ Control
  \/ PlaySend
  \/ LoopStep
  \/ \E i \in ProcIds : AudioStep(i)

Spec == Init /\ [][Next]_vars

\* Every goroutine that can take a step eventually takes one (the Go
\* scheduler), and a Play blocked in its send proceeds once the slot is free.
\* The select of playbackLoop picks among its ready cases at random, so a
\* channel that stays ready is not passed over for the ticker for ever.
\* The callers of the control operations are under no obligation.
FairSpec ==
  /\ Spec
  /\ WF_vars(PlaySend)
  /\ WF_vars(LoopStep)
  /\ SF_vars(RecvPlaying \/ RecvStop \/ RecvSeek)
  /\ \A i \in ProcIds : WF_vars(AudioStep(i))

\* ---- decoder bench: specification ---------------------------------------
\* One decoder is opened on a file and driven by a caller that repeats
\* Decode with a buffer of fixed size and seeks now and then; the player
\* stands by.
playerVars == <<playerFields, signals, mu, procs, emitted, window, result,
                client, aside>>

\* Decode: the caller appends what it takes from its buffer to pcm
Decode ==
  /\ media.codec # "none"
  /\ Len(pcm) < MaxOut
  /\ LET r == IF media.codec = "flac" THEN FlacDecode(media, dcd, media.buf)
              ELSE Mp3Decode(media, dcd, media.buf)
     IN /\ dcd' = r.d
        /\ pcm' = pcm \o Taken(media, r)
        /\ ret' = [op |-> "Decode", n |-> r.n, err |-> r.err,
                   atEnd |-> r.atEnd, wrote |-> Len(r.wrote)]
        /\ ended' = (ended \/ r.atEnd)
  /\ UNCHANGED <<media, sought, playerVars, dispatch, labs>>

SeekSample(sample, at, recreated) ==
  /\ media.codec # "none"
  /\ LET r == IF media.codec = "flac" THEN FlacSeekSample(media, dcd, sample)
              ELSE Mp3SeekSample(media, dcd, sample, at, recreated)
     IN /\ dcd' = r.d
        /\ ret' = [op |-> "SeekSample", n |-> 0, err |-> r.err,
                   atEnd |-> FALSE, wrote |-> 0]
        /\ ended' = (ended /\ r.err # "nil")
  /\ sought' = TRUE
  /\ UNCHANGED <<media, pcm, playerVars, dispatch, labs>>

\* only MP3Decoder.SeekSample moves the file's reader to a computed byte and
\* builds a new library decoder there
LandingFrames(f) == IF f.codec = "mp3" THEN 1..(Len(f.frames) + 1) ELSE {1}

Recreations(f) == IF f.codec = "mp3" THEN BOOLEAN ELSE {TRUE}

DecoderNext ==
  \/ Decode
  \/ \E s \in (0 - 1)..(SampleCount(media) + 1),
        a \in LandingFrames(media), c \in Recreations(media) :
          SeekSample(s, a, c)

InitDecoder ==
  /\ InitPlayer
  /\ client = "transport"
  /\ media \in Playable
  /\ dcd = NewDcd
  /\ pcm = <<>>
  /\ ret = NoRet
  /\ ended = FALSE
  /\ sought = FALSE
  /\ DispatchIdle
  /\ LabsIdle

DecoderSpec == InitDecoder /\ [][DecoderNext]_vars

\* ---- dispatch bench: notifyListeners ---------------------------------------
\* The events are numbered in the order of the notifyListeners calls; the
\* player's fields stand by.
AddListener(l) ==
  /\ l \notin listeners
  /\ listeners' = listeners \cup {l}
  /\ UNCHANGED <<calls, heard, sent, playerVars, bench, labs>>

RemoveListener(l) ==
  /\ l \in listeners
  /\ listeners' = listeners \ {l}
  /\ UNCHANGED <<calls, heard, sent, playerVars, bench, labs>>

\* notifyListeners: one goroutine per registered listener
notifyListeners ==
  /\ sent < MaxEvents
  /\ sent' = sent + 1
  /\ calls' = calls \cup {[listener |-> l, event |-> sent + 1] : l \in listeners}
  /\ UNCHANGED <<listeners, heard, playerVars, bench, labs>>

\* a goroutine started by notifyListeners runs its listener
ListenerRun(c) ==
  /\ c \in calls
  /\ calls' = calls \ {c}
  /\ heard' = [heard EXCEPT ![c.listener] = Append(@, c.event)]
  /\ UNCHANGED <<listeners, sent, playerVars, bench, labs>>

ListenerNext ==
  \/ \E l \in ListenerIds : AddListener(l)
  \/ \E l \in ListenerIds : RemoveListener(l)
  \/ notifyListeners
  \/ \E c \in calls : ListenerRun(c)

InitListener ==
  /\ InitPlayer
  /\ client = "transport"
  /\ BenchIdle
  /\ DispatchIdle
  /\ LabsIdle

ListenerSpec == InitListener /\ [][ListenerNext]_vars

\* ---- fadeOut ------------------------------------------------------------
\* startVolume := p.volume, read without the lock
FadeStart(f) ==
  /\ fades[f].pc = "start"
  /\ fades' = [fades EXCEPT ![f] = [@ EXCEPT !.pc = "step", !.startVolume = volume]]
  /\ emitted' = <<>>
  /\ UNCHANGED <<playerFields, signals, mu, procs, window, result, client,
                 beside, made, closing, output, outVolume>>

\* the volume of step i + 1 of FadeSteps: startVolume - volumeStep * (i + 1)
NewVolume(startVolume, i) == (startVolume * (FadeSteps - (i + 1))) \div FadeSteps

\* one turn of the loop of fadeOut: p.output.SetVolume(newVolume) under the
\* lock
FadeStep(f) ==
  /\ fades[f].pc = "step"
  /\ mu = "free"
  /\ outVolume' = IF output THEN NewVolume(fades[f].startVolume, fades[f].i)
                  ELSE outVolume
  /\ fades' = [fades EXCEPT ![f] =
                 [@ EXCEPT !.i = @ + 1,
                           !.pc = IF fades[f].i + 1 >= FadeSteps
                                  THEN "restore" ELSE "step"]]
  /\ emitted' = <<>>
  /\ UNCHANGED <<playerFields, signals, mu, procs, window, result, client,
                 beside, made, closing, output>>

\* p.output.SetVolume(startVolume) after the loop
FadeRestore(f) ==
  /\ fades[f].pc = "restore"
  /\ mu = "free"
  /\ outVolume' = IF output THEN fades[f].startVolume ELSE outVolume
  /\ fades' = [fades EXCEPT ![f] = [@ EXCEPT !.pc = "done"]]
  /\ emitted' = <<>>
  /\ UNCHANGED <<playerFields, signals, mu, procs, window, result, client,
                 beside, made, closing, output>>

\* ---- Close --------------------------------------------------------------
\* Close, first half: p.Stop()
CloseStop ==
  /\ "Close" \in ClientOps(client)
  /\ closing = "no"
  /\ closing' = "stopped"
  /\ StopCall
  /\ UNCHANGED <<client, made, beside, output, outVolume, fades>>

\* Close, second half: both decoders and the output are closed and set to nil
\* under the lock
CloseTeardown ==
  /\ closing = "stopped"
  /\ mu = "free"
  /\ closing' = "closed"
  /\ result' = "ok"
  /\ decs' = [d \in DecIds |->
                IF d # NIL /\ d \in {decoder, nextDecoder}
                THEN [decs[d] EXCEPT !.st = "closed"] ELSE decs[d]]
  /\ decoder' = NIL
  /\ nextDecoder' = NIL
  /\ output' = FALSE
  /\ emitted' = <<>>
  /\ window' = AfterOther(window)
  /\ procs' = CtlSeen(procs)
  /\ UNCHANGED <<state, currentTrack, nextTrack, position, duration, volume,
                 speed, outPaused, signals, mu, client, made, beside,
                 outVolume, fades>>

\* ---- the integration test's flow ----------------------------------------
\* TestIntegration_FullPlaybackFlow: Load, Play, Pause, Stop, Seek in range,
\* SetVolume(0.5), on a file that exists and opens
FlowControl ==
  \/ \E l \in TrackLens : Load(1, TRUE, l)
  \/ Play
  \/ Pause
  \/ Stop
  \/ \E p \in 0..MaxLen : Seek(p)
  \/ SetVolume(5)

FlowNext ==
  \/ FlowControl
  \/ LoopStep
  \/ \E i \in ProcIds : AudioStep(i)

InitFlow ==
  /\ InitPlayer
  /\ client = "flow"
  /\ BenchIdle
  /\ DispatchIdle
  /\ LabsIdle

FlowSpec == InitFlow /\ [][FlowNext]_vars

\* ---- pausing with the fade-out ------------------------------------------
FadeControl ==
  \/ \E l \in TrackLens : Load(1, TRUE, l)
  \/ Play
  \/ Pause
  \/ \E v \in {5, 11} : SetVolume(v)

\* (the client sends no stop and no seek, so the worker never receives one)
FadeNext ==
  \/ FadeControl
  \/ PlaySend
  \/ RecvPlaying
  \/ Tick
  \/ TickNotify
  \/ \E i \in ProcIds : PaStart(i)
  \/ \E i \in ProcIds : PaLoop(i)
  \/ \E i \in ProcIds : PaSelect(i)
  \/ \E i \in ProcIds, c \in BOOLEAN, w \in BOOLEAN : PaDecode(i, c, w)
  \/ \E i \in ProcIds : PaPos(i)
  \/ \E i \in ProcIds : PaErr(i)
  \/ \E i \in ProcIds : handleTrackFinished(i)
  \/ \E f \in 1..Len(fades) : FadeStart(f)
  \/ \E f \in 1..Len(fades) : FadeStep(f)
  \/ \E f \in 1..Len(fades) : FadeRestore(f)

InitFade ==
  /\ InitPlayer
  /\ client = "fade"
  /\ BenchIdle
  /\ DispatchIdle
  /\ LabsIdle

FadeSpec == InitFade /\ [][FadeNext]_vars

\* ---- closing the player -------------------------------------------------
CloseControl ==
  \/ \E l \in TrackLens : Load(1, TRUE, l)
  \/ Play
  \/ \E p \in SeekInputs : Seek(p)
  \/ CloseStop
  \/ CloseTeardown

\* (the client never has a Play blocked in its send: it does not pause)
CloseNext ==
  \/ CloseControl
  \/ LoopStep
  \/ \E i \in ProcIds : AudioStep(i)

InitClose ==
  /\ InitPlayer
  /\ client = "shutdown"
  /\ BenchIdle
  /\ DispatchIdle
  /\ LabsIdle

CloseSpec == InitClose /\ [][CloseNext]_vars

\* The goroutines are scheduled as in FairSpec, and a Close that has been
\* called runs to its end.
CloseFairSpec ==
  /\ CloseSpec
  /\ WF_vars(LoopStep)
  /\ SF_vars(RecvPlaying \/ RecvStop \/ RecvSeek)
  /\ \A i \in ProcIds : WF_vars(AudioStep(i))
  /\ WF_vars(CloseTeardown)

\* ---- playlist bench: Manager and Queue -----------------------------------
\* The manager holds a library of playlists, fixed at the start; a caller
\* selects playlists, sets the repeat mode and asks for the next track.  A
\* playlist is the sequence of its tracks' ids (Playlist.AddTrack refuses a
\* track that is already in it).  q.position is the slice index, counted
\* from 0.
RepeatOff == "RepeatOff"
RepeatOne == "RepeatOne"
RepeatAll == "RepeatAll"
RepeatModes == {RepeatOff, RepeatOne, RepeatAll}
ErrPlaylistNotFound == "ErrPlaylistNotFound"

TrackIds == 1..MaxTracks
PlaylistIds == 1..MaxPlaylists
TrackSeqs ==
  {s \in UNION {[1..n -> TrackIds] : n \in 0..MaxTracks} :
     \A i, j \in 1..Len(s) : i # j => s[i] # s[j]}

NewQueue == [tracks |-> <<>>, position |-> 0, shuffle |-> FALSE,
             repeat |-> RepeatOff]

QueueClear(q) == [q EXCEPT !.tracks = <<>>, !.position = 0]

QueueAdd(q, track) == [q EXCEPT !.tracks = Append(@, track)]

\* Queue.Next: the queue after the call and the track returned (NIL for nil)
QueueNext(q) ==
  IF Len(q.tracks) = 0 THEN [q |-> q, track |-> NIL]
  ELSE IF q.repeat = RepeatOne /\ q.position < Len(q.tracks)
  THEN [q |-> q, track |-> q.tracks[q.position + 1]]
  ELSE LET p == q.position + 1
       IN IF p >= Len(q.tracks)
          THEN IF q.repeat = RepeatAll
               THEN [q |-> [q EXCEPT !.position = 0], track |-> q.tracks[1]]
               ELSE [q |-> [q EXCEPT !.position = Len(q.tracks)],
                     track |-> NIL]
          ELSE [q |-> [q EXCEPT !.position = p], track |-> q.tracks[p + 1]]

\* the queue after the Add calls of SetCurrentPlaylist
RECURSIVE QueueAddAll(_, _)
QueueAddAll(q, tracks) ==
  IF tracks = <<>> THEN q
  ELSE QueueAddAll(QueueAdd(q, Head(tracks)), Tail(tracks))

addToHistory(h, trackID) ==
  LET a == Append(h, trackID)
  IN IF Len(a) > HistoryMax THEN Tail(a) ELSE a

offPlaylist == <<playerVars, bench, dispatch, equalizerB, biquadB, faderB,
                 gainB, limiterB, chainB, listB>>

SetCurrentPlaylist(id) ==
  /\ id \in PlaylistIds => manager.playCount[id] < MaxPlays
  /\ IF id \notin PlaylistIds
     THEN /\ got' = [got EXCEPT !.err = ErrPlaylistNotFound]
          /\ UNCHANGED <<queue, manager>>
     ELSE /\ manager' = [manager EXCEPT !.currentPlaylist = id,
                                        !.playCount[id] = @ + 1]
          /\ queue' = QueueAddAll(QueueClear(queue), manager.playlists[id])
          /\ got' = [err |-> "nil", tracks |-> <<>>]
  /\ UNCHANGED offPlaylist

GetNextTrack ==
  /\ Len(got.tracks) < MaxGot
  /\ LET r == QueueNext(queue)
     IN /\ queue' = r.q
        /\ manager' = IF r.track # NIL
                      THEN [manager EXCEPT
                              !.history = addToHistory(@, r.track)]
                      ELSE manager
        /\ got' = [got EXCEPT !.tracks =
                     Append(@, [track |-> r.track, repeat |-> queue.repeat])]
  /\ UNCHANGED offPlaylist

SetRepeat(mode) ==
  /\ queue' = [queue EXCEPT !.repeat = mode]
  /\ UNCHANGED <<manager, got, offPlaylist>>

ManagerNext ==
  \/ \E id \in 1..(MaxPlaylists + 1) : SetCurrentPlaylist(id)
  \/ GetNextTrack
  \/ \E mode \in RepeatModes : SetRepeat(mode)

InitQueue ==
  /\ InitPlayer
  /\ client = "transport"
  /\ BenchIdle
  /\ DispatchIdle
  /\ queue = NewQueue
  /\ manager \in [playlists : [PlaylistIds -> TrackSeqs],
                  currentPlaylist : {NIL},
                  history : {<<>>},
                  playCount : {[id \in PlaylistIds |-> 0]}]
  /\ got = [err |-> "nil", tracks |-> <<>>]
  /\ EqualizerIdle
  /\ BiquadIdle
  /\ FaderIdle
  /\ GainIdle
  /\ LimiterIdle
  /\ ChainIdle
  /\ ListIdle

QueueSpec == InitQueue /\ [][ManagerNext]_vars

\* ---- queue bench: Queue.Peek beside Queue.Next ------------------------------
\* A caller drives one Queue through the manager's pass-through methods
\* (AddToQueue, ClearQueue, PeekNextTrack) and the queue's own (Next,
\* Previous, SetRepeat).  got records what the last Peek returned and the
\* queue it was called on, and what the last Next returned.
\* Queue.Peek: the track returned (NIL for nil)
QueuePeek(q) ==
  IF Len(q.tracks) = 0 THEN NIL
  ELSE LET nextPos == q.position + 1
       IN IF nextPos >= Len(q.tracks)
          THEN IF q.repeat = RepeatAll THEN q.tracks[1] ELSE NIL
          ELSE q.tracks[nextPos + 1]

\* Queue.Previous: the queue after the call
QueuePrevious(q) ==
  IF Len(q.tracks) = 0 THEN q
  ELSE IF q.position - 1 < 0
  THEN [q EXCEPT !.position =
          IF q.repeat = RepeatAll THEN Len(q.tracks) - 1 ELSE 0]
  ELSE [q EXCEPT !.position = @ - 1]

NotPeeked == [asked |-> FALSE, peek |-> NIL, at |-> NewQueue, next |-> NIL]

AddToQueue(track) ==
  /\ Len(queue.tracks) < MaxTracks
  /\ queue' = QueueAdd(queue, track)
  /\ UNCHANGED <<manager, got, offPlaylist>>

ClearQueue ==
  /\ queue' = QueueClear(queue)
  /\ UNCHANGED <<manager, got, offPlaylist>>

Previous ==
  /\ queue' = QueuePrevious(queue)
  /\ UNCHANGED <<manager, got, offPlaylist>>

PeekNextTrack ==
  /\ got' = [got EXCEPT !.asked = TRUE, !.peek = QueuePeek(queue),
                        !.at = queue]
  /\ UNCHANGED <<queue, manager, offPlaylist>>

\* Queue.Next
QueueNextCall ==
  /\ LET r == QueueNext(queue)
     IN /\ queue' = r.q
        /\ got' = [NotPeeked EXCEPT !.next = r.track]
  /\ UNCHANGED <<manager, offPlaylist>>

PeekNext ==
  \/ \E t \in TrackIds : AddToQueue(t)
  \/ ClearQueue
  \/ Previous
  \/ \E mode \in RepeatModes : SetRepeat(mode)
  \/ PeekNextTrack
  \/ QueueNextCall

InitPeek ==
  /\ InitPlayer
  /\ client = "transport"
  /\ BenchIdle
  /\ DispatchIdle
  /\ queue = NewQueue
  /\ manager = 0
  /\ got = NotPeeked
  /\ EqualizerIdle
  /\ BiquadIdle
  /\ FaderIdle
  /\ GainIdle
  /\ LimiterIdle
  /\ ChainIdle
  /\ ListIdle

PeekSpec == InitPeek /\ [][PeekNext]_vars

\* ---- track list bench: domain.Playlist --------------------------------------
\* One Playlist is filled, thinned and reordered by a caller.  A track is a
\* record with its ID; Tracks and TrackIDs are the two slices of the
\* Playlist, written one after the other as the methods write them.
\* Positions are slice indices, counted from 0.
ErrInvalidTrack == "ErrInvalidTrack"
ErrInvalidPosition == "ErrInvalidPosition"

Track(id) == [ID |-> id]

NewPlaylist == [Tracks |-> <<>>, TrackIDs |-> <<>>]

\* append(s[:i], s[i+1:]...)
Cut(s, i) == SubSeq(s, 1, i) \o SubSeq(s, i + 2, Len(s))

\* append(s[:i+1], s[i:]...) followed by s[i] = v
Put(s, i, v) == SubSeq(s, 1, i) \o <<v>> \o SubSeq(s, i + 1, Len(s))

\* Playlist.AddTrack: the playlist after the call and the error returned
\* (the argument is the ID of the track, NIL for a nil track)
PlaylistAddTrack(p, id) ==
  IF id = NIL THEN [p |-> p, err |-> ErrInvalidTrack]
  ELSE IF \E i \in 1..Len(p.Tracks) : p.Tracks[i].ID = id
  THEN [p |-> p, err |-> "nil"]
  ELSE [p |-> [Tracks |-> Append(p.Tracks, Track(id)),
               TrackIDs |-> Append(p.TrackIDs, id)],
        err |-> "nil"]

\* Playlist.RemoveTrackAt
PlaylistRemoveTrackAt(p, pos) ==
  IF pos < 0 \/ pos >= Len(p.Tracks)
  THEN [p |-> p, err |-> ErrInvalidPosition]
  ELSE [p |-> [Tracks |-> Cut(p.Tracks, pos),
               TrackIDs |-> Cut(p.TrackIDs, pos)],
        err |-> "nil"]

\* Playlist.MoveTrack
PlaylistMoveTrack(p, fromPos, toPos) ==
  IF fromPos < 0 \/ fromPos >= Len(p.Tracks)
  THEN [p |-> p, err |-> ErrInvalidPosition]
  ELSE IF toPos < 0 \/ toPos >= Len(p.Tracks)
  THEN [p |-> p, err |-> ErrInvalidPosition]
  ELSE IF fromPos = toPos THEN [p |-> p, err |-> "nil"]
  ELSE LET track == p.Tracks[fromPos + 1]
           trackID == p.TrackIDs[fromPos + 1]
           at == IF toPos > fromPos THEN toPos - 1 ELSE toPos
       IN [p |-> [Tracks |-> Put(Cut(p.Tracks, fromPos), at, track),
                  TrackIDs |-> Put(Cut(p.TrackIDs, fromPos), at, trackID)],
           err |-> "nil"]

offList == <<playerVars, bench, dispatch, playlistB, equalizerB, biquadB,
            faderB, gainB, limiterB, chainB>>

NotMoved == [op |-> "none", fromPos |-> 0, toPos |-> 0, tracks |-> <<>>,
             err |-> "nil"]

AddTrack(track) ==
  /\ Len(playlist.Tracks) < MaxTracks
  /\ LET r == PlaylistAddTrack(playlist, track)
     IN /\ playlist' = r.p
        /\ moved' = [NotMoved EXCEPT !.op = "AddTrack", !.err = r.err]
  /\ UNCHANGED offList

RemoveTrackAt(pos) ==
  /\ LET r == PlaylistRemoveTrackAt(playlist, pos)
     IN /\ playlist' = r.p
        /\ moved' = [NotMoved EXCEPT !.op = "RemoveTrackAt", !.err = r.err]
  /\ UNCHANGED offList

MoveTrack(fromPos, toPos) ==
  /\ LET r == PlaylistMoveTrack(playlist, fromPos, toPos)
     IN /\ playlist' = r.p
        /\ moved' = [op |-> "MoveTrack", fromPos |-> fromPos,
                     toPos |-> toPos, tracks |-> playlist.Tracks,
                     err |-> r.err]
  /\ UNCHANGED offList

ListNext ==
  \/ \E t \in {NIL} \cup TrackIds : AddTrack(t)
  \/ \E pos \in (0 - 1)..MaxTracks : RemoveTrackAt(pos)
  \/ \E fromPos, toPos \in (0 - 1)..MaxTracks : MoveTrack(fromPos, toPos)

InitList ==
  /\ InitPlayer
  /\ client = "transport"
  /\ BenchIdle
  /\ DispatchIdle
  /\ PlaylistIdle
  /\ EqualizerIdle
  /\ BiquadIdle
  /\ FaderIdle
  /\ GainIdle
  /\ LimiterIdle
  /\ ChainIdle
  /\ playlist = NewPlaylist
  /\ moved = NotMoved

ListSpec == InitList /\ [][ListNext]_vars

\* ---- the effects: numbers ---------------------------------------------------
\* A float64 value is an integer count of a fine unit, or NaN; a float32
\* value is a multiple of F32 fine units, so that the conversion
\* float32(...) rounds.  A filter coefficient is counted in units of 1/One.
\* An operation with a NaN operand gives NaN.
ToFloat32(v) ==
  IF v = NaN THEN NaN ELSE ((2 * v + F32) \div (2 * F32)) * F32

\* n / One, rounded to the nearest fine unit
Scaled(n) == (2 * n + One) \div (2 * One)

SampleInputs == {0 - 4, 0, 4}
Signals == UNION {[1..n -> SampleInputs] : n \in 1..MaxSig}

\* ---- BiquadFilter -----------------------------------------------------------
NewBiquadFilter ==
  [b0 |-> One, b1 |-> 0, b2 |-> 0, a1 |-> 0, a2 |-> 0,
   x1L |-> 0, x2L |-> 0, y1L |-> 0, y2L |-> 0,
   x1R |-> 0, x2R |-> 0, y1R |-> 0, y2R |-> 0]

SetCoefficients(f, c) ==
  [f EXCEPT !.b0 = c[1], !.b1 = c[2], !.b2 = c[3], !.a1 = c[4], !.a2 = c[5]]

\* y0 := b0*x0 + b1*x1 + b2*x2 - a1*y1 - a2*y2
BiquadY(f, h, x0) ==
  IF NaN \in {f.b0, f.b1, f.b2, f.a1, f.a2, h.x1, h.x2, h.y1, h.y2, x0}
  THEN NaN
  ELSE Scaled(f.b0 * x0 + f.b1 * h.x1 + f.b2 * h.x2
              - f.a1 * h.y1 - f.a2 * h.y2)

\* the sample loop of Process and of one channel of ProcessStereo: the
\* history after the samples and the samples written back
RECURSIVE BiquadRun(_, _, _, _)
BiquadRun(f, h, samples, out) ==
  IF samples = <<>> THEN [h |-> h, out |-> out]
  ELSE LET x0 == Head(samples)
           y0 == BiquadY(f, h, x0)
       IN BiquadRun(f, [x1 |-> x0, x2 |-> h.x1, y1 |-> y0, y2 |-> h.y1],
                    Tail(samples), Append(out, ToFloat32(y0)))

HistoryL(f) == [x1 |-> f.x1L, x2 |-> f.x2L, y1 |-> f.y1L, y2 |-> f.y2L]

HistoryR(f) == [x1 |-> f.x1R, x2 |-> f.x2R, y1 |-> f.y1R, y2 |-> f.y2R]

\* a Process that does not write the history back
BiquadProcessNoSave(f, samples) ==
  [f |-> f, out |-> BiquadRun(f, HistoryL(f), samples, <<>>).out]

\* BiquadFilter.Process: the filter after the call and the samples
BiquadProcess(f, samples) ==
  LET r == BiquadRun(f, HistoryL(f), samples, <<>>)
  IN [f |-> [f EXCEPT !.x1L = r.h.x1, !.x2L = r.h.x2,
                      !.y1L = r.h.y1, !.y2L = r.h.y2],
      out |-> r.out]

\* BiquadFilter.ProcessStereo: the loop runs over left and indexes right;
\* with a shorter right it panics at the first missing index, after the
\* left sample of that frame has been written and before the history is
\* stored
BiquadProcessStereo(f, left, right) ==
  IF Len(right) < Len(left)
  THEN LET n == Len(right)
           l == BiquadRun(f, HistoryL(f), SubSeq(left, 1, n + 1), <<>>)
           r == BiquadRun(f, HistoryR(f), right, <<>>)
       IN [f |-> f, left |-> l.out \o SubSeq(left, n + 2, Len(left)),
           right |-> r.out, panic |-> TRUE]
  ELSE LET n == Len(left)
           l == BiquadRun(f, HistoryL(f), left, <<>>)
           r == BiquadRun(f, HistoryR(f), SubSeq(right, 1, n), <<>>)
       IN [f |-> [f EXCEPT !.x1L = l.h.x1, !.x2L = l.h.x2,
                           !.y1L = l.h.y1, !.y2L = l.h.y2,
                           !.x1R = r.h.x1, !.x2R = r.h.x2,
                           !.y1R = r.h.y1, !.y2R = r.h.y2],
           left |-> l.out,
           right |-> r.out \o SubSeq(right, n + 1, Len(right)),
           panic |-> FALSE]

\* ---- Equalizer ----------------------------------------------------------------
\* The model keeps the EqBands highest of the ten bands (8 kHz and 16 kHz at
\* a sample rate of 44100 Hz, Q 0.7), a band's gain is a whole number of dB
\* or NaN, and a band is named by its index, counted from 0.
ErrInvalidParameter == "ErrInvalidParameter"
GainMin == 0 - GainMax
BandIds == 0..(EqBands - 1)
GainInputs == {GainMin - 1, 0, GainMax + 1, NaN}

\* the normalised coefficients <<b0/a0, b1/a0, b2/a0, a1/a0, a2/a0>> that
\* updateFilter computes for a band and its gain
Coefficients(band, gain) ==
  IF gain = NaN THEN <<NaN, NaN, NaN, NaN, NaN>>
  ELSE IF band = 0
  THEN CASE gain = GainMin -> <<3, -2, 2, -2, -4>>
         [] gain = 0 -> <<One, -4, 2, -4, 2>>
         [] gain = 4 -> <<12, -5, 0, -5, 3>>
         [] gain = 5 -> <<13, -5, -1, -5, 4>>
         [] gain = GainMax -> <<25, -6, -11, -6, 6>>
  ELSE CASE gain = GainMin -> <<3, 3, 2, 3, -3>>
         [] gain = 0 -> <<One, 7, 2, 7, 2>>
         [] gain = 4 -> <<11, 8, 1, 8, 4>>
         [] gain = 5 -> <<12, 8, 0, 8, 4>>
         [] gain = GainMax -> <<22, 9, -8, 9, 6>>

\* the gains of a preset for the bands of the model, <<>> for a name that
\* LoadPreset does not know
Presets == {"flat", "rock", "none"}
PresetGains(preset) ==
  CASE preset = "flat" -> [b \in 1..EqBands |-> 0]
    [] preset = "rock" -> [b \in 1..EqBands |-> IF b = EqBands THEN 5 ELSE 4]
    [] OTHER -> <<>>

ClampGain(gain) ==
  IF FloatLess(gain, GainMin) THEN GainMin
  ELSE IF FloatGreater(gain, GainMax) THEN GainMax
  ELSE gain

updateFilter(e, band) ==
  IF band < 0 \/ band >= EqBands THEN e
  ELSE [e EXCEPT !.filters[band + 1] =
          SetCoefficients(@, Coefficients(band, e.bands[band + 1]))]

\* one iteration of the loops of SetAllBands and Reset, and the body of
\* SetBandGain under the lock
SetBand(e, band, gain) ==
  updateFilter([e EXCEPT !.bands[band + 1] = gain], band)

RECURSIVE SetBandsFrom(_, _, _)
SetBandsFrom(e, band, gains) ==
  IF band >= EqBands THEN e
  ELSE SetBandsFrom(SetBand(e, band, ClampGain(gains[band + 1])),
                    band + 1, gains)

NewEqualizer ==
  LET e == [bands |-> [b \in 1..EqBands |-> 0],
            filters |-> [b \in 1..EqBands |-> NewBiquadFilter],
            enabled |-> FALSE]
  IN SetBandsFrom(e, 0, e.bands)

GetBandGain(band) ==
  IF band < 0 \/ band >= EqBands THEN 0 ELSE eq.bands[band + 1]

\* the filters of Equalizer.Process from the one of index band on, in series
RECURSIVE FiltersFrom(_, _, _)
FiltersFrom(e, band, samples) ==
  IF band >= EqBands THEN [e |-> e, out |-> samples]
  ELSE LET r == BiquadProcess(e.filters[band + 1], samples)
       IN FiltersFrom([e EXCEPT !.filters[band + 1] = r.f], band + 1, r.out)

\* the signals handed to the equalizer
EqSignals == {s \in Signals : s[1] = 4 /\ \A i \in 2..Len(s) : s[i] = 0}

offEqualizer == <<playerVars, bench, dispatch, playlistB, biquadB, faderB,
                  gainB, limiterB, chainB, listB>>


\* eqOut holds the samples of the last call only
Cleared == [eqOut EXCEPT !.in = <<>>, !.out = <<>>]

SetBandGain(band, gain) ==
  /\ IF band < 0 \/ band >= EqBands
     THEN /\ eqOut' = [Cleared EXCEPT !.err = ErrInvalidParameter]
          /\ eq' = eq
     ELSE /\ eq' = SetBand(eq, band, ClampGain(gain))
          /\ eqOut' = [Cleared EXCEPT !.err = "nil",
                                    !.last[band + 1] = gain]
  /\ UNCHANGED <<eqRun, offEqualizer>>

SetAllBands(gains) ==
  /\ eq' = SetBandsFrom(eq, 0, gains)
  /\ eqOut' = [Cleared EXCEPT !.err = "nil",
                            !.last = gains]
  /\ UNCHANGED <<eqRun, offEqualizer>>

LoadPreset(preset) ==
  /\ IF PresetGains(preset) = <<>>
     THEN /\ eq' = eq
          /\ eqOut' = [Cleared EXCEPT !.err = "nil"]
     ELSE /\ eq' = SetBandsFrom(eq, 0, PresetGains(preset))
          /\ eqOut' = [Cleared EXCEPT !.err = "nil",
                                    !.last = PresetGains(preset)]
  /\ UNCHANGED <<eqRun, offEqualizer>>

EqualizerReset ==
  /\ eq' = SetBandsFrom(eq, 0, [b \in 1..EqBands |-> 0])
  /\ eqOut' = [Cleared EXCEPT !.err = "nil",
                            !.last = [b \in 1..EqBands |-> 0]]
  /\ UNCHANGED <<eqRun, offEqualizer>>

EqualizerSetEnabled(enabled) ==
  /\ eq' = [eq EXCEPT !.enabled = enabled]
  /\ eqOut' = [Cleared EXCEPT !.err = "nil"]
  /\ UNCHANGED <<eqRun, offEqualizer>>

EqualizerProcess(samples) ==
  /\ eqOut.passes < MaxPasses
  /\ LET r == IF eq.enabled THEN FiltersFrom(eq, 0, samples)
              ELSE [e |-> eq, out |-> samples]
     IN /\ eq' = r.e
        /\ eqOut' = [eqOut EXCEPT !.err = "nil", !.in = samples, !.out = r.out,
                                  !.passes = @ + 1]
  /\ UNCHANGED <<eqRun, offEqualizer>>

EqualizerNext ==
  \/ \E band \in (0 - 1)..EqBands, gain \in GainInputs :
       SetBandGain(band, gain)
  \/ \E gains \in [1..EqBands -> GainInputs] : SetAllBands(gains)
  \/ \E preset \in {"flat", "none"} : LoadPreset(preset)
  \/ EqualizerReset
  \/ \E enabled \in BOOLEAN : EqualizerSetEnabled(enabled)
  \/ \E samples \in EqSignals : EqualizerProcess(samples)

\* no call is in progress
EqualizerQuiet == [lock |-> "free", gains |-> <<>>, band |-> 0,
                   pass |-> "idle", filter |-> 0, seen |-> <<>>,
                   samples |-> <<>>]

NoEqOut == [err |-> "nil", last |-> [b \in 1..EqBands |-> 0],
            in |-> <<>>, out |-> <<>>, passes |-> 0, loads |-> 0,
            configs |-> {[b \in 1..EqBands |-> 0]}, all |-> <<>>]

InitEqualizer ==
  /\ InitPlayer
  /\ client = "transport"
  /\ BenchIdle
  /\ DispatchIdle
  /\ PlaylistIdle
  /\ eq = NewEqualizer
  /\ eqRun = EqualizerQuiet
  /\ eqOut = NoEqOut
  /\ BiquadIdle
  /\ FaderIdle
  /\ GainIdle
  /\ LimiterIdle
  /\ ChainIdle
  /\ ListIdle

EqualizerSpec == InitEqualizer /\ [][EqualizerNext]_vars

\* ---- Equalizer: a preset loaded while samples are processed -----------------
\* One goroutine loads presets and reads the bands, another runs Process.
\* SetAllBands holds eq.mu from its first band to its last; Process holds
\* eq.mu only to read eq.enabled, and then calls the filters one by one,
\* each under the filter's own lock.
LoadPresetLock(preset) ==
  /\ eqRun.lock = "free"
  /\ eqOut.loads < MaxLoads
  /\ IF PresetGains(preset) = <<>>
     THEN /\ eqRun' = eqRun
          /\ eqOut' = [eqOut EXCEPT !.loads = @ + 1]
     ELSE /\ eqRun' = [eqRun EXCEPT !.lock = "SetAllBands",
                                    !.gains = PresetGains(preset),
                                    !.band = 0]
          /\ eqOut' = [eqOut EXCEPT !.loads = @ + 1,
                                    !.configs = @ \cup {PresetGains(preset)}]
  /\ UNCHANGED <<eq, offEqualizer>>

\* one iteration of the loop of SetAllBands; the last one is followed by
\* the deferred Unlock
SetAllBandsBand ==
  /\ eqRun.lock = "SetAllBands"
  /\ eq' = SetBand(eq, eqRun.band, ClampGain(eqRun.gains[eqRun.band + 1]))
  /\ eqRun' = IF eqRun.band + 1 >= EqBands
              THEN [eqRun EXCEPT !.lock = "free", !.gains = <<>>, !.band = 0]
              ELSE [eqRun EXCEPT !.band = @ + 1]
  /\ UNCHANGED <<eqOut, offEqualizer>>

GetAllBands ==
  /\ eqRun.lock = "free"
  /\ eqOut' = [eqOut EXCEPT !.all = eq.bands]
  /\ UNCHANGED <<eq, eqRun, offEqualizer>>

SetEnabledLock(enabled) ==
  /\ eqRun.lock = "free"
  /\ eq' = [eq EXCEPT !.enabled = enabled]
  /\ UNCHANGED <<eqRun, eqOut, offEqualizer>>

\* Process up to its test of eq.enabled
ProcessEnabled(samples) ==
  /\ eqRun.lock = "free"
  /\ eqRun.pass = "idle"
  /\ eqOut.passes < MaxPasses
  /\ IF eq.enabled
     THEN /\ eqRun' = [eqRun EXCEPT !.pass = "filters", !.filter = 0,
                                    !.seen = <<>>, !.samples = samples]
          /\ eqOut' = [eqOut EXCEPT !.in = samples, !.out = <<>>,
                                    !.passes = @ + 1]
     ELSE /\ eqRun' = [eqRun EXCEPT !.seen = <<>>]
          /\ eqOut' = [eqOut EXCEPT !.in = samples, !.out = samples,
                                    !.passes = @ + 1]
  /\ UNCHANGED <<eq, offEqualizer>>

\* the coefficients of a filter
CoefficientsOf(f) == <<f.b0, f.b1, f.b2, f.a1, f.a2>>

\* eq.filters[i].Process(samples)
ProcessFilter ==
  /\ eqRun.pass = "filters"
  /\ LET f == eq.filters[eqRun.filter + 1]
         r == BiquadProcess(f, eqRun.samples)
         last == eqRun.filter + 1 >= EqBands
     IN /\ eq' = [eq EXCEPT !.filters[eqRun.filter + 1] = r.f]
        /\ eqRun' = [eqRun EXCEPT
                       !.pass = IF last THEN "idle" ELSE "filters",
                       !.filter = IF last THEN 0 ELSE @ + 1,
                       !.seen = Append(@, CoefficientsOf(f)),
                       !.samples = IF last THEN <<>> ELSE r.out]
        /\ eqOut' = IF last THEN [eqOut EXCEPT !.out = r.out] ELSE eqOut
  /\ UNCHANGED offEqualizer

EqualizerRaceNext ==
  \/ \E preset \in Presets : LoadPresetLock(preset)
  \/ SetAllBandsBand
  \/ GetAllBands
  \/ \E enabled \in BOOLEAN : SetEnabledLock(enabled)
  \/ \E samples \in EqSignals : ProcessEnabled(samples)
  \/ ProcessFilter

EqualizerRaceSpec == InitEqualizer /\ [][EqualizerRaceNext]_vars

\* ---- biquad bench: a signal processed whole and in two parts ----------------
\* Two filters with the same coefficients and the same history are handed
\* the same signal, one in a single call, the other in two calls on the
\* samples before and after a cut.
BiquadSignals == UNION {[1..n -> SampleInputs] : n \in 1..(MaxSig + 1)}

\* filters as updateFilter leaves them, unused or with the history of an
\* earlier call
BiquadFilters ==
  {[SetCoefficients(NewBiquadFilter, Coefficients(1, g))
      EXCEPT !.x1L = h[1], !.y1L = h[2], !.x2R = h[1], !.y1R = h[2]] :
     g \in {GainMin, 0, GainMax}, h \in {<<0, 0>>, <<4, 5>>}}

\* the right channels that go with a left channel: the same samples in
\* reverse order, or inverted
RightOf(left) ==
  {[i \in 1..Len(left) |-> left[Len(left) + 1 - i]],
   [i \in 1..Len(left) |-> 0 - left[i]]}

offBiquad == <<playerVars, bench, dispatch, playlistB, equalizerB, faderB,
               gainB, limiterB, chainB, listB>>

\* the samples of the next part
Part(samples, n) ==
  IF n = 0 THEN SubSeq(samples, 1, filt.cut)
  ELSE SubSeq(samples, filt.cut + 1, Len(samples))

ProcessWhole ==
  /\ ~filt.stereo
  /\ ~filt.whole.done
  /\ LET r == BiquadProcess(filt.whole.f, filt.left)
     IN filt' = [filt EXCEPT !.whole = [f |-> r.f, left |-> r.out,
                                        right |-> <<>>, done |-> TRUE]]
  /\ UNCHANGED offBiquad

ProcessPart ==
  /\ ~filt.stereo
  /\ filt.parts.done < 2
  /\ LET r == BiquadProcess(filt.parts.f, Part(filt.left, filt.parts.done))
     IN filt' = [filt EXCEPT !.parts = [f |-> r.f, left |-> @.left \o r.out,
                                        right |-> <<>>, done |-> @.done + 1]]
  /\ UNCHANGED offBiquad

ProcessStereoWhole ==
  /\ filt.stereo
  /\ ~filt.whole.done
  /\ LET r == BiquadProcessStereo(filt.whole.f, filt.left, filt.right)
     IN filt' = [filt EXCEPT !.whole = [f |-> r.f, left |-> r.left,
                                        right |-> r.right, done |-> TRUE]]
  /\ UNCHANGED offBiquad

ProcessStereoPart ==
  /\ filt.stereo
  /\ filt.parts.done < 2
  /\ LET r == BiquadProcessStereo(filt.parts.f,
                                  Part(filt.left, filt.parts.done),
                                  Part(filt.right, filt.parts.done))
     IN filt' = [filt EXCEPT !.parts = [f |-> r.f, left |-> @.left \o r.left,
                                        right |-> @.right \o r.right,
                                        done |-> @.done + 1]]
  /\ UNCHANGED offBiquad

BiquadNext ==
  \/ ProcessWhole
  \/ ProcessPart
  \/ ProcessStereoWhole
  \/ ProcessStereoPart

InitBiquad ==
  /\ InitPlayer
  /\ client = "transport"
  /\ BenchIdle
  /\ DispatchIdle
  /\ PlaylistIdle
  /\ EqualizerIdle
  /\ \E f \in BiquadFilters, left \in BiquadSignals, stereo \in BOOLEAN :
       \E right \in IF stereo THEN RightOf(left) ELSE {<<>>} :
         \E cut \in 0..Len(left) :
           filt = [left |-> left, right |-> right, cut |-> cut,
                   stereo |-> stereo,
                   whole |-> [f |-> f, left |-> <<>>, right |-> <<>>,
                              done |-> FALSE],
                   parts |-> [f |-> f, left |-> <<>>, right |-> <<>>,
                              done |-> 0]]
  /\ FaderIdle
  /\ GainIdle
  /\ LimiterIdle
  /\ ChainIdle
  /\ ListIdle

BiquadSpec == InitBiquad /\ [][BiquadNext]_vars

\* ---- biquad bench: one filter, two callers -----------------------------------
\* One goroutine calls Process or ProcessStereo once, another calls Reset or
\* SetCoefficients once, on the same filter.  Process and ProcessStereo hold
\* f.mu twice: the read lock while they copy the coefficients and the
\* history into locals, and the write lock while they store the history; the
\* sample loop between the two runs on the locals without the lock.
\* BiquadFilter.Reset
BiquadReset(f) ==
  [f EXCEPT !.x1L = 0, !.x2L = 0, !.y1L = 0, !.y2L = 0,
            !.x1R = 0, !.x2R = 0, !.y1R = 0, !.y2R = 0]

\* the second critical section of Process: the history computed from the
\* locals snap is stored in f
BiquadStore(f, snap, samples) ==
  LET r == BiquadRun(snap, HistoryL(snap), samples, <<>>)
  IN [f |-> [f EXCEPT !.x1L = r.h.x1, !.x2L = r.h.x2,
                      !.y1L = r.h.y1, !.y2L = r.h.y2],
      left |-> r.out, right |-> <<>>]

\* the second critical section of ProcessStereo (channels of equal length)
BiquadStoreStereo(f, snap, left, right) ==
  LET l == BiquadRun(snap, HistoryL(snap), left, <<>>)
      r == BiquadRun(snap, HistoryR(snap), right, <<>>)
  IN [f |-> [f EXCEPT !.x1L = l.h.x1, !.x2L = l.h.x2,
                      !.y1L = l.h.y1, !.y2L = l.h.y2,
                      !.x1R = r.h.x1, !.x2R = r.h.x2,
                      !.y1R = r.h.y1, !.y2R = r.h.y2],
      left |-> l.out, right |-> r.out]

\* the first critical section: the locals are a copy of the filter
ProcessRead ==
  /\ ~filt.stereo
  /\ filt.pc = "start"
  /\ filt' = [filt EXCEPT !.pc = "read", !.snap = filt.f]
  /\ UNCHANGED offBiquad

ProcessStore ==
  /\ ~filt.stereo
  /\ filt.pc = "read"
  /\ LET r == BiquadStore(filt.f, filt.snap, filt.left)
     IN filt' = [filt EXCEPT !.pc = "done", !.f = r.f, !.outL = r.left,
                             !.outR = r.right]
  /\ UNCHANGED offBiquad

ProcessStereoRead ==
  /\ filt.stereo
  /\ filt.pc = "start"
  /\ filt' = [filt EXCEPT !.pc = "read", !.snap = filt.f]
  /\ UNCHANGED offBiquad

ProcessStereoStore ==
  /\ filt.stereo
  /\ filt.pc = "read"
  /\ LET r == BiquadStoreStereo(filt.f, filt.snap, filt.left, filt.right)
     IN filt' = [filt EXCEPT !.pc = "done", !.f = r.f, !.outL = r.left,
                             !.outR = r.right]
  /\ UNCHANGED offBiquad

FilterReset ==
  /\ filt.other = "Reset"
  /\ ~filt.otherDone
  /\ filt' = [filt EXCEPT !.f = BiquadReset(@), !.otherDone = TRUE]
  /\ UNCHANGED offBiquad

FilterSetCoefficients ==
  /\ filt.other = "SetCoefficients"
  /\ ~filt.otherDone
  /\ filt' = [filt EXCEPT !.f = SetCoefficients(@, filt.c),
                          !.otherDone = TRUE]
  /\ UNCHANGED offBiquad

BiquadRaceNext ==
  \/ ProcessRead
  \/ ProcessStore
  \/ ProcessStereoRead
  \/ ProcessStereoStore
  \/ FilterReset
  \/ FilterSetCoefficients

InitBiquadRace ==
  /\ InitPlayer
  /\ client = "transport"
  /\ BenchIdle
  /\ DispatchIdle
  /\ PlaylistIdle
  /\ EqualizerIdle
  /\ \E f \in BiquadFilters, left \in Signals, stereo \in BOOLEAN,
        other \in {"Reset", "SetCoefficients"}, g \in {GainMin, GainMax} :
       \E right \in IF stereo THEN RightOf(left) ELSE {<<>>} :
         filt = [f0 |-> f, f |-> f, left |-> left, right |-> right,
                 stereo |-> stereo, other |-> other,
                 c |-> Coefficients(0, g), otherDone |-> FALSE,
                 pc |-> "start", snap |-> f, outL |-> <<>>, outR |-> <<>>]
  /\ FaderIdle
  /\ GainIdle
  /\ LimiterIdle
  /\ ChainIdle
  /\ ListIdle

BiquadRaceSpec == InitBiquadRace /\ [][BiquadRaceNext]_vars

\* ---- crossfader bench ---------------------------------------------------------
\* The position and the two gains are counted in units of 1/One.  Tiny is
\* the float64 value math.Cos(math.Pi/2), about 6e-17: not zero, and lost
\* in a sum with any other sample of the model.
Curves == {"linear", "equal_power", "logarithmic", "other"}
PositionInputs == {0 - (One \div 2), 0, One \div 2, One, One + (One \div 2), NaN}
FaderSignals == UNION {[1..n -> {0, 4}] : n \in 1..MaxSig}
\* the output buffers handed to Mix, with the samples of an earlier call
FaderBuffers == {[i \in 1..MaxSig |-> F32]}

NewCrossfader == [position |-> 0, curve |-> "equal_power", enabled |-> FALSE]

\* SetPosition's clamp
ClampPosition(p) ==
  IF FloatLess(p, 0) THEN 0 ELSE IF FloatGreater(p, One) THEN One ELSE p

\* <<gainA, gainB>> of Mix, on the positions 0, 1/2, 1 and NaN
Gains(curve, p) ==
  CASE curve = "equal_power" ->
         IF p = NaN THEN <<NaN, NaN>>
         ELSE IF p = 0 THEN <<One, 0>>
         ELSE IF p = One THEN <<Tiny, One>>
         ELSE <<6, 6>>
    [] curve = "logarithmic" ->
         IF FloatLess(p, One \div 2)
         THEN <<One, ((2 * p) * (2 * p)) \div (2 * One)>>
         ELSE IF p = NaN THEN <<NaN, One>>
         ELSE <<((2 * (One - p)) * (2 * (One - p))) \div (2 * One), One>>
    [] OTHER ->
         IF p = NaN THEN <<NaN, NaN>> ELSE <<One - p, p>>

\* float32(float64(a)*gainA + float64(b)*gainB)
MixSample(a, b, g) ==
  IF NaN \in {a, b, g[1], g[2]} THEN NaN
  ELSE LET gainA == IF g[1] = Tiny THEN 0 ELSE g[1]
           sum == Scaled(a * gainA + b * g[2])
       IN IF g[1] = Tiny /\ a # 0 /\ sum = 0 THEN Tiny ELSE ToFloat32(sum)

\* the output buffer after Mix
MixOutput(c, sourceA, sourceB, buffer) ==
  IF ~c.enabled
  THEN [i \in 1..Len(buffer) |->
          IF i <= Len(sourceA) THEN sourceA[i] ELSE buffer[i]]
  ELSE LET g == Gains(c.curve, c.position)
       IN [i \in 1..Len(buffer) |->
             IF i <= Len(sourceA) /\ i <= Len(sourceB)
             THEN MixSample(sourceA[i], sourceB[i], g)
             ELSE IF i <= Len(sourceA) THEN MixSample(sourceA[i], 0, g)
             ELSE IF i <= Len(sourceB) THEN MixSample(0, sourceB[i], g)
             ELSE 0]

offFader == <<playerVars, bench, dispatch, playlistB, equalizerB, biquadB,
              gainB, limiterB, chainB, listB>>

SetPosition(p) ==
  /\ fader' = [fader EXCEPT !.position = ClampPosition(p)]
  /\ UNCHANGED <<mixed, offFader>>

SetCurve(curve) ==
  /\ fader' = [fader EXCEPT !.curve = curve]
  /\ UNCHANGED <<mixed, offFader>>

CrossfaderSetEnabled(enabled) ==
  /\ fader' = [fader EXCEPT !.enabled = enabled]
  /\ UNCHANGED <<mixed, offFader>>

Mix(sourceA, sourceB, buffer) ==
  /\ mixed' = [a |-> sourceA, b |-> sourceB,
               out |-> MixOutput(fader, sourceA, sourceB, buffer)]
  /\ UNCHANGED <<fader, offFader>>

CrossfaderNext ==
  \/ \E p \in PositionInputs : SetPosition(p)
  \/ \E curve \in Curves : SetCurve(curve)
  \/ \E enabled \in BOOLEAN : CrossfaderSetEnabled(enabled)
  \/ \E sourceA \in FaderSignals, sourceB \in FaderSignals,
        buffer \in FaderBuffers : Mix(sourceA, sourceB, buffer)

InitCrossfader ==
  /\ InitPlayer
  /\ client = "transport"
  /\ BenchIdle
  /\ DispatchIdle
  /\ PlaylistIdle
  /\ EqualizerIdle
  /\ BiquadIdle
  /\ fader = NewCrossfader
  /\ mixed = [a |-> <<>>, b |-> <<>>, out |-> <<>>]
  /\ GainIdle
  /\ LimiterIdle
  /\ ChainIdle
  /\ ListIdle

CrossfaderSpec == InitCrossfader /\ [][CrossfaderNext]_vars

\* ---- replay gain bench --------------------------------------------------------
\* A sample and a peak are counted in units of 1/One (the sample 1.0 is One),
\* a gain in dB, the linear gain in units of 1/One.
Modes == {"track", "album", "off"}
TrackInputs == {<<0 - 6, 0>>, <<6, One \div 2>>, <<6, 2 * One>>, <<0, NaN>>}
AlbumInputs == {<<6, 0>>, <<NaN, 2 * One>>}
PreampInputs == {0, 6}
GainSamples == {0 - (One + One \div 2), One \div 2, One + One \div 2}
GainSignals == UNION {[1..n -> GainSamples] : n \in 1..MaxSig}
RightSignals == {<<One + One \div 2>>, <<One \div 2>>}

NewReplayGain ==
  [trackGain |-> 0, trackPeak |-> 0, albumGain |-> 0, albumPeak |-> 0,
   mode |-> "track", preamp |-> 0, enabled |-> FALSE]

\* math.Pow(10, dB/20.0)
Linear(dB) ==
  IF dB = NaN THEN NaN
  ELSE CASE dB = 0 - 6 -> One \div 2
         [] dB = 0 -> One
         [] dB = 6 -> 2 * One
         [] dB = 12 -> 4 * One

Plus(a, b) == IF a = NaN \/ b = NaN THEN NaN ELSE a + b

\* totalGain of Process, after the test against the peak
TotalGain(r) ==
  LET gain == IF r.mode = "album" THEN r.albumGain ELSE r.trackGain
      peak == IF r.mode = "album" THEN r.albumPeak ELSE r.trackPeak
      totalGain == Linear(Plus(gain, r.preamp))
  IN IF FloatGreater(peak, 0) /\ totalGain # NaN /\ totalGain * peak > One * One
     THEN (One * One) \div peak
     ELSE totalGain

\* one sample after the gain and the hard limit
GainSample(sample, totalGain) ==
  LET s == IF sample = NaN \/ totalGain = NaN THEN NaN
           ELSE ToFloat32(Scaled(sample * totalGain))
  IN IF FloatGreater(s, One) THEN One
     ELSE IF FloatLess(s, 0 - One) THEN 0 - One
     ELSE s

\* the samples after ReplayGain.Process
GainProcess(r, samples) ==
  IF ~r.enabled \/ r.mode = "off" THEN samples
  ELSE [i \in 1..Len(samples) |-> GainSample(samples[i], TotalGain(r))]

offGain == <<playerVars, bench, dispatch, playlistB, equalizerB, biquadB,
             faderB, limiterB, chainB, listB>>

SetTrackGain(gain, peak) ==
  /\ rgain' = [rgain EXCEPT !.trackGain = gain, !.trackPeak = peak]
  /\ UNCHANGED <<rgOut, offGain>>

SetAlbumGain(gain, peak) ==
  /\ rgain' = [rgain EXCEPT !.albumGain = gain, !.albumPeak = peak]
  /\ UNCHANGED <<rgOut, offGain>>

SetMode(mode) ==
  /\ rgain' = [rgain EXCEPT !.mode = mode]
  /\ UNCHANGED <<rgOut, offGain>>

SetPreamp(preamp) ==
  /\ rgain' = [rgain EXCEPT !.preamp = preamp]
  /\ UNCHANGED <<rgOut, offGain>>

ReplayGainSetEnabled(enabled) ==
  /\ rgain' = [rgain EXCEPT !.enabled = enabled]
  /\ UNCHANGED <<rgOut, offGain>>

ReplayGainProcess(samples) ==
  /\ rgOut' = [in |-> samples, left |-> GainProcess(rgain, samples),
               right |-> <<>>]
  /\ UNCHANGED <<rgain, offGain>>

ReplayGainProcessStereo(left, right) ==
  /\ rgOut' = [in |-> left, left |-> GainProcess(rgain, left),
               right |-> GainProcess(rgain, right)]
  /\ UNCHANGED <<rgain, offGain>>

ReplayGainNext ==
  \/ \E t \in TrackInputs : SetTrackGain(t[1], t[2])
  \/ \E a \in AlbumInputs : SetAlbumGain(a[1], a[2])
  \/ \E mode \in Modes : SetMode(mode)
  \/ \E preamp \in PreampInputs : SetPreamp(preamp)
  \/ \E enabled \in BOOLEAN : ReplayGainSetEnabled(enabled)
  \/ \E samples \in GainSignals : ReplayGainProcess(samples)
  \/ \E left \in GainSignals, right \in RightSignals :
       ReplayGainProcessStereo(left, right)

InitReplayGain ==
  /\ InitPlayer
  /\ client = "transport"
  /\ BenchIdle
  /\ DispatchIdle
  /\ PlaylistIdle
  /\ EqualizerIdle
  /\ BiquadIdle
  /\ FaderIdle
  /\ rgain = NewReplayGain
  /\ rgOut = [in |-> <<>>, left |-> <<>>, right |-> <<>>]
  /\ LimiterIdle
  /\ ChainIdle
  /\ ListIdle

ReplayGainSpec == InitReplayGain /\ [][ReplayGainNext]_vars

\* ---- limiter bench ------------------------------------------------------------
\* Samples, the threshold, the envelope and the gains are counted in
\* hundredths (the sample 1.0 is Cent).  The limiter is built for a sample
\* rate of 1000 Hz, for which the attack coefficient exp(-1/(0.001*1000))
\* is 0.37 and the release coefficient exp(-1/(0.050*1000)) is 0.98.
LimSignals == UNION {[1..n -> {0, 2 * Cent}] : n \in 1..MaxSig}

NewLimiter == [threshold |-> Threshold, ratio |-> Ratio, envelope |-> 0,
               enabled |-> TRUE]

Abs(x) == IF x < 0 THEN 0 - x ELSE x

\* n / Cent, rounded to the nearest hundredth
Cents(n) == (2 * n + Cent) \div (2 * Cent)

\* the envelope after one sample
Envelope(l, input) ==
  LET targetEnv == IF Abs(input) > l.threshold
                   THEN Abs(input) - l.threshold ELSE 0
      envCoeff == IF targetEnv > l.envelope THEN AttackCoeff
                  ELSE ReleaseCoeff
  IN targetEnv + Cents((l.envelope - targetEnv) * envCoeff)

\* the gain applied to one sample under an envelope: 1 - envelope * (1 -
\* 1/ratio), and 1 where the sample is left as it is
LimGain(l, envelope) ==
  IF envelope > 0
  THEN Cent - Cents(envelope * (Cent - Cent \div l.ratio))
  ELSE Cent

\* the sample loop of Limiter.Process: the limiter after the samples, the
\* samples written back and the gain applied to each
RECURSIVE LimRun(_, _, _, _)
LimRun(l, samples, out, gains) ==
  IF samples = <<>> THEN [l |-> l, out |-> out, gains |-> gains]
  ELSE LET input == Head(samples)
           envelope == Envelope(l, input)
           gain == LimGain(l, envelope)
       IN LimRun([l EXCEPT !.envelope = envelope], Tail(samples),
                 Append(out, IF envelope > 0
                             THEN ToFloat32(Cents(input * gain))
                             ELSE input),
                 Append(gains, gain))

LimProcess(l, samples) ==
  IF ~l.enabled
  THEN [l |-> l, out |-> samples,
        gains |-> [i \in 1..Len(samples) |-> Cent]]
  ELSE LimRun(l, samples, <<>>, <<>>)

\* combined := make([]float32, len(left)+len(right)), filled frame by frame
Interleaved(left, right) ==
  [k \in 1..(Len(left) + Len(right)) |->
     IF k > 2 * Len(left) THEN 0
     ELSE IF k % 2 = 1 THEN left[(k + 1) \div 2] ELSE right[k \div 2]]

\* Limiter.ProcessStereo.  With a right channel shorter than the left one
\* the first loop indexes right past its end and the call panics before
\* any sample is processed.
LimProcessStereo(l, left, right) ==
  IF Len(right) < Len(left)
  THEN [l |-> l, left |-> left, right |-> right, gainL |-> <<>>,
        gainR |-> <<>>, panic |-> TRUE]
  ELSE LET r == LimProcess(l, Interleaved(left, right))
           n == Len(left)
       IN [l |-> r.l,
           left |-> [i \in 1..n |-> r.out[2 * i - 1]],
           right |-> [i \in 1..Len(right) |->
                        IF i <= n THEN r.out[2 * i] ELSE right[i]],
           gainL |-> [i \in 1..n |-> r.gains[2 * i - 1]],
           gainR |-> [i \in 1..n |-> r.gains[2 * i]],
           panic |-> FALSE]

offLimiter == <<playerVars, bench, dispatch, playlistB, equalizerB, biquadB,
                faderB, gainB, chainB, listB>>

NoLimOut == [left |-> <<>>, right |-> <<>>, gainL |-> <<>>, gainR |-> <<>>,
             panic |-> FALSE]

LimiterProcess(samples) ==
  /\ LET r == LimProcess(limiter, samples)
     IN /\ limiter' = r.l
        /\ limOut' = [NoLimOut EXCEPT !.left = r.out, !.gainL = r.gains]
  /\ UNCHANGED offLimiter

LimiterProcessStereo(left, right) ==
  /\ LET r == LimProcessStereo(limiter, left, right)
     IN /\ limiter' = r.l
        /\ limOut' = [left |-> r.left, right |-> r.right, gainL |-> r.gainL,
                      gainR |-> r.gainR, panic |-> r.panic]
  /\ UNCHANGED offLimiter

LimiterSetEnabled(enabled) ==
  /\ limiter' = [limiter EXCEPT !.enabled = enabled]
  /\ UNCHANGED <<limOut, offLimiter>>

LimiterReset ==
  /\ limiter' = [limiter EXCEPT !.envelope = 0]
  /\ UNCHANGED <<limOut, offLimiter>>

LimiterNext ==
  \/ \E samples \in LimSignals : LimiterProcess(samples)
  \/ \E left \in LimSignals, right \in LimSignals :
       LimiterProcessStereo(left, right)
  \/ \E enabled \in BOOLEAN : LimiterSetEnabled(enabled)
  \/ LimiterReset

InitLimiter ==
  /\ InitPlayer
  /\ client = "transport"
  /\ BenchIdle
  /\ DispatchIdle
  /\ PlaylistIdle
  /\ EqualizerIdle
  /\ BiquadIdle
  /\ FaderIdle
  /\ GainIdle
  /\ limiter = NewLimiter
  /\ limOut = NoLimOut
  /\ ChainIdle
  /\ ListIdle

LimiterSpec == InitLimiter /\ [][LimiterNext]_vars

\* ---- chain bench: EffectChain -------------------------------------------------
\* The effects are objects behind the Effect interface: each has a name, an
\* enabled flag and a state, of which the model keeps the number of Process
\* calls it has served.  A buffer is described by the effects that have
\* processed it, in order.  Two of the effects share a name.
ErrEffectNotFound == "ErrEffectNotFound"
EffectIds == 1..MaxEffects
GetName(id) == IF id = 1 THEN "ReplayGain" ELSE "Limiter"
EffectNames == {GetName(id) : id \in EffectIds} \cup {"Equalizer"}

NewEffectChain ==
  [effects |-> <<>>, enabled |-> TRUE,
   units |-> [id \in EffectIds |-> [enabled |-> TRUE, calls |-> 0]]]

\* the index of the first effect of the list with the name, 0 if none
RECURSIVE IndexOf(_, _, _)
IndexOf(effects, name, i) ==
  IF i > Len(effects) THEN 0
  ELSE IF GetName(effects[i]) = name THEN i
  ELSE IndexOf(effects, name, i + 1)

\* a loop that calls every effect, enabled or not
RECURSIVE ChainRunAll(_, _, _)
ChainRunAll(units, effects, applied) ==
  IF effects = <<>> THEN [units |-> units, applied |-> applied]
  ELSE ChainRunAll([units EXCEPT ![Head(effects)].calls = @ + 1],
                   Tail(effects), Append(applied, Head(effects)))

\* the loop of Process and ProcessStereo over c.effects: the effects after
\* it and the effects that processed the buffer
RECURSIVE ChainRun(_, _, _)
ChainRun(units, effects, applied) ==
  IF effects = <<>> THEN [units |-> units, applied |-> applied]
  ELSE LET effect == Head(effects)
       IN IF units[effect].enabled
          THEN ChainRun([units EXCEPT ![effect].calls = @ + 1],
                        Tail(effects), Append(applied, effect))
          ELSE ChainRun(units, Tail(effects), applied)

offChain == <<playerVars, bench, dispatch, playlistB, equalizerB, biquadB,
              faderB, gainB, limiterB, listB>>

NoChainOut == [err |-> "nil", left |-> <<>>, right |-> <<>>, passes |-> 0]

\* chainOut holds the buffers of the last call only
Returns(err) == [chainOut EXCEPT !.err = err, !.left = <<>>, !.right = <<>>]

AddEffect(effect) ==
  /\ Len(chain.effects) < MaxChain
  /\ chain' = [chain EXCEPT !.effects = Append(@, effect)]
  /\ chainOut' = Returns("nil")
  /\ UNCHANGED offChain

RemoveEffect(name) ==
  /\ LET i == IndexOf(chain.effects, name, 1)
     IN IF i = 0
        THEN /\ chainOut' = Returns(ErrEffectNotFound)
             /\ chain' = chain
        ELSE /\ chain' = [chain EXCEPT !.effects =
                            SubSeq(@, 1, i - 1) \o SubSeq(@, i + 1, Len(@))]
             /\ chainOut' = Returns("nil")
  /\ UNCHANGED offChain

ChainSetEnabled(enabled) ==
  /\ chain' = [chain EXCEPT !.enabled = enabled]
  /\ chainOut' = Returns("nil")
  /\ UNCHANGED offChain

\* SetEnabled of one of the effects
EffectSetEnabled(effect, enabled) ==
  /\ chain' = [chain EXCEPT !.units[effect].enabled = enabled]
  /\ chainOut' = Returns("nil")
  /\ UNCHANGED offChain

ChainProcess ==
  /\ chainOut.passes < MaxPasses
  /\ LET r == IF chain.enabled THEN ChainRun(chain.units, chain.effects, <<>>)
              ELSE [units |-> chain.units, applied |-> <<>>]
     IN /\ chain' = [chain EXCEPT !.units = r.units]
        /\ chainOut' = [err |-> "nil", left |-> r.applied, right |-> <<>>,
                        passes |-> chainOut.passes + 1]
  /\ UNCHANGED offChain

ChainProcessStereo ==
  /\ chainOut.passes < MaxPasses
  /\ LET r == IF chain.enabled THEN ChainRun(chain.units, chain.effects, <<>>)
              ELSE [units |-> chain.units, applied |-> <<>>]
     IN /\ chain' = [chain EXCEPT !.units = r.units]
        /\ chainOut' = [err |-> "nil", left |-> r.applied, right |-> r.applied,
                        passes |-> chainOut.passes + 1]
  /\ UNCHANGED offChain

ChainNext ==
  \/ \E effect \in EffectIds : AddEffect(effect)
  \/ \E name \in EffectNames : RemoveEffect(name)
  \/ \E enabled \in BOOLEAN : ChainSetEnabled(enabled)
  \/ \E effect \in EffectIds, enabled \in BOOLEAN :
       EffectSetEnabled(effect, enabled)
  \/ ChainProcess
  \/ ChainProcessStereo

InitChain ==
  /\ InitPlayer
  /\ client = "transport"
  /\ BenchIdle
  /\ DispatchIdle
  /\ PlaylistIdle
  /\ EqualizerIdle
  /\ BiquadIdle
  /\ FaderIdle
  /\ GainIdle
  /\ LimiterIdle
  /\ chain = NewEffectChain
  /\ chainOut = NoChainOut
  /\ ListIdle

ChainSpec == InitChain /\ [][ChainNext]_vars

TypeOK ==
  /\ state \in {StateStopped, StatePlaying, StatePaused, StateError}
  /\ decoder \in DecIds \cup {NIL}
  /\ nextDecoder \in DecIds \cup {NIL}
  /\ position \in 0..MaxLen
  /\ playing \in 0..ChanCap
  /\ stop \in 0..ChanCap
  /\ Len(seekRequest) <= ChanCap
  /\ mu \in {"free", "PlayPaused", "PlayStopped"}
  /\ made \in 0..Len(FlowOrder)
  /\ closing \in {"no", "stopped", "closed"}
  /\ output \in BOOLEAN
  /\ outVolume \in VolumeMin..VolumeMax
  /\ Len(fades) <= MaxFades
  /\ Len(pcm) <= MaxOut + MaxBuf
  /\ sent \in 0..MaxEvents

\* ---- properties ---------------------------------------------------------------
Count(e, evs) == Cardinality({k \in 1..Len(evs) : evs[k] = e})

\* a call that is rejected leaves the player, the channels and the listeners alone
NothingChanged == UNCHANGED <<playerFields, signals>> /\ emitted' = <<>>

\* C1: a goroutine whose Decode reported end of stream on the active decoder
\* while a next track was set and the state was Playing (procs[i].gap, until
\* the next control call) sees the state stay Playing, and its
\* handleTrackFinished emits exactly one TrackChanged, no TrackFinished, and
\* leaves the state Playing.
C1_GaplessSwap ==
  [][\A i \in ProcIds :
       procs[i].gap =>
         /\ state = StatePlaying
         /\ handleTrackFinished(i) =>
              /\ state' = StatePlaying
              /\ Count(EventTrackChanged, emitted') = 1
              /\ Count(EventTrackFinished, emitted') = 0]_vars

\* C2: a Seek(p) that is accepted leaves p as the one pending request, whatever
\* was pending before (latest wins), and the slot never holds more than one.
C2_SeekLatestWins ==
  [][/\ \A p \in SeekInputs :
          (Seek(p) /\ SeekResult(p) = "ok") => seekRequest' = <<p>>
     /\ Len(seekRequest') <= 1]_vars

\* C3: no control call is ever waiting on a full handoff slot with the control
\* lock held.
C3_NoCallBlocked == mu = "free"

\* C4: Play in state Playing returns AlreadyPlaying, Play without a decoder
\* returns NoTrackLoaded, Pause outside Playing returns NotPlaying, and none
\* of these calls changes a field, sends a signal or emits an event.
C4_RejectedPlayPause ==
  [][/\ (Play /\ state = StatePlaying) =>
          (result' = "AlreadyPlaying" /\ NothingChanged)
     /\ (Play /\ decoder = NIL) =>
          (result' = "NoTrackLoaded" /\ NothingChanged)
     /\ (Pause /\ state # StatePlaying) =>
          (result' = "NotPlaying" /\ NothingChanged)]_vars

\* C5: only a successful Load takes the player out of Error.
C5_ErrorTerminal ==
  [][(state = StateError /\ state' # StateError) =>
       \E l \in TrackLens : Load(1, TRUE, l)]_vars

\* C6: a Seek(p) that was accepted is eventually followed by the position
\* being p, unless a Seek, Stop or Load is called first (window stays
\* Window("seek", p) until one of the two happens), and neither the Seek nor
\* the worker's servicing of it changes the state.
C6_SeekEventuallyApplied ==
  /\ \A p \in 0..MaxLen :
       (window = Window("seek", p)) ~> (window # Window("seek", p))
  /\ [][((\E p \in SeekInputs : Seek(p)) \/ IdleSeek
          \/ (\E i \in ProcIds : PaSeek(i))) => state' = state]_vars

\* C7: a call rejected by input validation returns an error and changes
\* nothing, and volume and speed stay in range.
C7_ValidationChangesNothing ==
  [][/\ \A v \in VolumeInputs :
          (SetVolume(v) /\ v \notin VolumeMin..VolumeMax) =>
            (result' = "VolumeOutOfRange" /\ NothingChanged)
     /\ \A s \in SpeedInputs :
          (SetSpeed(s) /\ s \notin SpeedMin..SpeedMax) =>
            (result' = "SpeedOutOfRange" /\ NothingChanged)
     /\ \A p \in SeekInputs :
          (Seek(p) /\ (p < 0 \/ p > duration)) =>
            (result' # "ok" /\ NothingChanged)
     /\ \A c \in BOOLEAN, l \in TrackLens :
          Load(NIL, c, l) => (result' = "TrackNil" /\ NothingChanged)
     /\ volume' \in VolumeMin..VolumeMax
     /\ speed' \in SpeedMin..SpeedMax]_vars

\* C8: from the return of Stop to the next Play, Seek or Load the state is
\* Stopped and the position is 0.
C8_StoppedAfterStop ==
  window.kind = "stop" => (state = StateStopped /\ position = 0)

\* C9: a Stop that found the player Playing or Paused with decoder d active
\* is eventually followed by d being closed and out of the decoder slot,
\* unless a Play, Seek or Load is called first; a Stop that finds the player
\* Stopped returns success and changes nothing.
C9_StopEventuallyClosesDecoder ==
  /\ \A d \in DecIds :
       (window = Window("stop", d)) ~>
         (window # Window("stop", d) \/ (decs[d].st = "closed" /\ decoder # d))
  /\ [][(Stop /\ state = StateStopped) =>
          (result' = "ok" /\ NothingChanged)]_vars

\* C10: from a successful Load to the next control call the state is Stopped,
\* the position is 0, the decoder slot holds the decoder the Load opened, that
\* decoder is open and the decoders loaded before it are closed; the Load
\* emits exactly one TrackChanged.
C10_LoadedAfterLoad ==
  [][/\ window'.kind = "load" =>
          /\ state' = StateStopped
          /\ position' = 0
          /\ decoder' = window'.arg
          /\ decs'[window'.arg].st = "open"
          /\ \A d \in LoadIds : d < window'.arg => decs'[d].st = "closed"
     /\ \A l \in TrackLens :
          Load(1, TRUE, l) => Count(EventTrackChanged, emitted') = 1]_vars

\* C12: a decode failure while Playing moves the player to Error, hands an
\* Error event to the listeners and ends the decode loop (no retry).
C12_DecodeFailureErrorEvent ==
  [][\A i \in ProcIds :
       (PaErr(i) /\ state = StatePlaying) =>
         /\ state' = StateError
         /\ Count(EventError, emitted') >= 1
         /\ procs'[i].pc \in {"idle", "none"}]_vars

\* C13: when the worker services a seek and the decoder's Seek fails, an Error
\* event is handed to the listeners and position and state stay as they were.
C13_SeekFailureErrorEvent ==
  [][/\ (IdleSeek /\ decoder # NIL /\ ~DecSeekOk(decoder, procs[0].pos)) =>
          /\ Count(EventError, emitted') >= 1
          /\ position' = position
          /\ state' = state
     /\ \A i \in ProcIds :
          (PaSeek(i) /\ ~DecSeekOk(procs[i].dec, procs[i].pos)) =>
            /\ Count(EventError, emitted') >= 1
            /\ position' = position
            /\ state' = state]_vars

\* C14: an end of stream handled with no next track set leaves the player
\* Stopped at position 0 with exactly one TrackFinished emitted, and no end of
\* stream puts the player in Error.
C14_EndOfStreamStops ==
  [][\A i \in ProcIds :
       handleTrackFinished(i) =>
         /\ (nextDecoder = NIL \/ nextTrack = NIL) =>
              /\ state' = StateStopped
              /\ position' = 0
              /\ Count(EventTrackFinished, emitted') = 1
         /\ (state' = StateError => state = StateError)]_vars

\* the state right after such an end of stream, reached from Playing
C14_Witness ==
  /\ emitted = <<EventStateChanged, EventTrackFinished>>
  /\ state = StateStopped
  /\ position = 0
  /\ decoder # NIL
  /\ decs[decoder].eof

\* C15: whenever the player is Playing, a PositionChanged event is eventually
\* emitted unless the player leaves Playing.
C15_PositionTicksWhilePlaying ==
  (state = StatePlaying) ~>
    (state # StatePlaying \/ Count(EventPositionChanged, emitted) >= 1)


\* no frame of the file is bad
Sound(f) == \A k \in 1..Len(f.frames) : ~f.frames[k].bad

\* C19: for a finite stream and a fixed positive buffer size, repeated
\* Decode calls hand the caller every sample of the stream exactly once and
\* in stream order (so what the caller holds at any time is the stream's
\* first samples), and when Decode returns end-of-stream it holds them all.
C19_EverySampleOnceInOrder ==
  (media.codec # "none" /\ ~sought /\ Sound(media)) =>
     /\ pcm = Ids(0, Len(pcm))
     /\ Len(pcm) <= Units(media)
     /\ (ret.err = ErrEndOfStream => Len(pcm) = Units(media))

\* C20: a Decode that meets the end of the stream returns the count of the
\* samples it produced and no error when it produced some, and (0,
\* end-of-stream) when it produced none; once a Decode has met the end of
\* the stream, every Decode returns (0, end-of-stream) until a SeekSample
\* returns nil.
C20_EndOfStreamLatched ==
  [][Decode =>
       /\ ret'.atEnd =>
            IF ret'.wrote > 0
            THEN ret'.err = "nil" /\ ret'.n = ret'.wrote
            ELSE ret'.err = ErrEndOfStream /\ ret'.n = 0
       /\ ended => (ret'.err = ErrEndOfStream /\ ret'.n = 0)]_vars


\* C11: each listener receives the events in the order in which they were
\* emitted, whatever the interleaving of the dispatch goroutines.
C11_ListenerOrder ==
  \A l \in ListenerIds :
    \A i, j \in 1..Len(heard[l]) : i < j => heard[l][i] < heard[l][j]


\* every playback goroutine has returned
WorkerDone == \A i \in ProcIds : procs[i].pc = "none"

\* C16: once Close has returned (both decoder slots and the output closed
\* and nil), the playback worker eventually terminates, and from then on it
\* decodes nothing, writes nothing to the output and emits no event.
C16_CloseStopsWorker ==
  /\ [](closing = "closed" => (decoder = NIL /\ nextDecoder = NIL /\ ~output))
  /\ (closing = "closed") ~> WorkerDone

\* the loaded track has neither run out nor failed to decode
TrackIntact == state # StateError /\ \A d \in DecIds : ~decs[d].eof

\* C17: for a loaded track that plays on, every call of the sequence Load,
\* Play, Pause, Stop, Seek (in range), SetVolume(0.5) returns no error, and
\* the state right after Play, Pause and Stop is Playing, Paused and Stopped;
\* so the in-range Seek after Stop succeeds whatever the worker has done.
C17_FullPlaybackFlow ==
  [][(client = "flow" /\ made' = made + 1 /\ TrackIntact) =>
       /\ result' = "ok"
       /\ FlowOrder[made + 1] = "Play" => state' = StatePlaying
       /\ FlowOrder[made + 1] = "Pause" => state' = StatePaused
       /\ FlowOrder[made + 1] = "Stop" => state' = StateStopped]_vars

\* C18: with fade-on-pause, no volume step of a fade-out is applied to the
\* output once the output has been paused, and when a successful Pause has
\* set the state to Paused the fade-out it started has run.
C18_FadeBeforePause ==
  [][/\ \A f \in 1..Len(fades) : FadeStep(f) => ~outPaused
     /\ (client = "fade" /\ Pause /\ result' = "ok") =>
          fades'[Len(fades')].pc = "done"]_vars


\* C21: a SeekSample whose target is negative or beyond the stream's sample
\* count returns an error and leaves the decoder as it was (current sample,
\* end-of-stream flag, stream cursor): the target is not clamped.
C21_SeekOutOfRangeRejected ==
  [][\A s \in (0 - 1)..(SampleCount(media) + 1),
        a \in LandingFrames(media), c \in Recreations(media) :
       (SeekSample(s, a, c) /\ (s < 0 \/ s > SampleCount(media))) =>
          (ret'.err \in {"OutOfRange", "Negative"} /\ dcd' = dcd)]_vars

\* an out-of-range seek has been rejected by a decoder that had decoded to
\* the end of its stream
C21_Witness ==
  /\ ret.op = "SeekSample"
  /\ ret.err \in {"OutOfRange", "Negative"}
  /\ dcd.eof
  /\ dcd.currentSample > 0


\* the track the k-th GetNextTrack after SetCurrentPlaylist is to return
Expected(k) ==
  LET pl == manager.playlists[manager.currentPlaylist]
  IN IF k <= Len(pl) THEN pl[k] ELSE NIL

\* C22: after SetCurrentPlaylist on a playlist of tracks t1..tn, the first
\* GetNextTrack returns t1, and while repeat is off the following calls
\* return t2..tn in order and then nil.
C22_NextTrackInOrder ==
  manager.currentPlaylist # NIL =>
    \A k \in 1..Len(got.tracks) :
       (\A j \in 1..k : got.tracks[j].repeat = RepeatOff) =>
          got.tracks[k].track = Expected(k)


\* clamp(g, -12, +12)
Clamp(g) ==
  IF g < GainMin THEN GainMin ELSE IF g > GainMax THEN GainMax ELSE g

\* every band's stored gain is a number of [-12, +12] and is the clamped
\* value of the gain last set for the band
GainsClamped ==
  \A band \in BandIds :
     /\ eq.bands[band + 1] \in GainMin..GainMax
     /\ GetBandGain(band) = Clamp(eqOut.last[band + 1])

\* C23: after any sequence of SetBandGain, SetAllBands, LoadPreset and Reset
\* calls every band's stored gain lies in [-12, +12] dB and GetBandGain
\* returns the clamped value of the gain last set for the band; SetBandGain
\* with a band index outside the bands returns the invalid-parameter error
\* and changes no band.
C23_BandGainsClamped ==
  /\ []GainsClamped
  /\ [][\A band \in (0 - 1)..EqBands, gain \in GainInputs :
          (SetBandGain(band, gain) /\ band \notin BandIds) =>
             /\ eqOut'.err = ErrInvalidParameter
             /\ eq' = eq]_vars


\* every band is at 0 dB
Flat == \A band \in BandIds : eq.bands[band + 1] = 0

\* C28: with every band at 0 dB the enabled equalizer hands back the samples
\* it was given, also when the bands were returned to 0 dB (by SetBandGain,
\* the flat preset or Reset) after samples had been processed at other gains.
C28_FlatIsIdentity ==
  [][\A samples \in EqSignals :
       (EqualizerProcess(samples) /\ eq.enabled /\ Flat) =>
          eqOut'.out = samples]_vars


\* the band gains read by GetAllBands, and the coefficients met so far by a
\* Process pass, are those of one of the settings the equalizer was given
Unmixed ==
  /\ eqOut.all # <<>> => eqOut.all \in eqOut.configs
  /\ \E c \in eqOut.configs :
       \A i \in 1..Len(eqRun.seen) :
          eqRun.seen[i] = Coefficients(i - 1, c[i])

\* C24: a preset is applied to all the bands at once: no GetAllBands and no
\* Process pass that runs meanwhile meets the gains or coefficients of two
\* settings; a preset name that LoadPreset does not know changes nothing.
C24_PresetAtomic ==
  /\ []Unmixed
  /\ [][\A preset \in Presets :
          (LoadPresetLock(preset) /\ PresetGains(preset) = <<>>) =>
             (eq' = eq /\ eqRun' = eqRun)]_vars


\* C25: processing a signal in one Process call and processing it in two
\* successive calls on its parts give the same output samples and leave the
\* same history (x1, x2, y1, y2) in the filter; likewise for each channel
\* of ProcessStereo.
C25_ChunkingInvariant ==
  (filt.whole.done /\ filt.parts.done = 2) =>
     /\ filt.parts.left = filt.whole.left
     /\ filt.parts.right = filt.whole.right
     /\ filt.parts.f = filt.whole.f

\* a stereo signal has been processed both ways with the cut inside it, by
\* a filter whose history is not a float32 value and whose second part
\* depends on the first
C25_Witness ==
  /\ filt.stereo
  /\ filt.whole.done
  /\ filt.parts.done = 2
  /\ filt.cut > 0
  /\ filt.cut < Len(filt.left)
  /\ ToFloat32(filt.whole.f.y1L) # filt.whole.f.y1L
  /\ filt.whole.f.y2R # 0
  /\ filt.whole.left # filt.left


\* the output agrees with a source on every index that both have
AgreesWith(out, source) ==
  \A i \in 1..Len(out) : i <= Len(source) => out[i] = source[i]

\* C26: for every curve, Mix at position 0 writes an output equal to
\* sourceA and at position 1 an output equal to sourceB; SetPosition keeps
\* the position in [0, 1] whatever its argument.
C26_CrossfadeEnds ==
  /\ [](fader.position \in 0..One)
  /\ [][\A sourceA \in FaderSignals, sourceB \in FaderSignals,
          buffer \in FaderBuffers :
          Mix(sourceA, sourceB, buffer) =>
             /\ fader.position = 0 => AgreesWith(mixed'.out, sourceA)
             /\ fader.position = One => AgreesWith(mixed'.out, sourceB)]_vars


\* every sample of a buffer lies in [-1, 1]
InUnit(samples) == \A i \in 1..Len(samples) : samples[i] \in (0 - One)..One

\* C27: after ReplayGain.Process and ProcessStereo every sample lies in
\* [-1, 1], whatever the input amplitude and the gain, peak, preamp, mode
\* and enabled flag.
C27_ReplayGainBounded ==
  InUnit(rgOut.left) /\ InUnit(rgOut.right)


\* C29: Limiter.ProcessStereo links the channels: in every frame the gain
\* applied to the left sample is the gain applied to the right sample, and
\* the call is index-safe whatever the lengths of left and right.
C29_LimiterLinked ==
  /\ ~limOut.panic
  /\ \A i \in 1..Len(limOut.gainR) : limOut.gainL[i] = limOut.gainR[i]


\* the effects of the list whose IsEnabled is true, in list order
EnabledEffects ==
  SelectSeq(chain.effects, LAMBDA effect : chain.units[effect].enabled)

\* the number of entries of a sequence that are the effect
Times(s, effect) == Cardinality({i \in 1..Len(s) : s[i] = effect})

\* C30: Process and ProcessStereo of the chain apply exactly the effects
\* whose IsEnabled is true, once each and in the order in which they were
\* added; when the chain is disabled the samples are left as they are and
\* no effect's state changes.  RemoveEffect of a name that is not in the
\* chain returns an error and leaves the list as it is.
C30_ChainAppliesEnabled ==
  [][/\ (ChainProcess \/ ChainProcessStereo) =>
          LET applied == IF chain.enabled THEN EnabledEffects ELSE <<>>
          IN /\ chainOut'.left = applied
             /\ ChainProcessStereo => chainOut'.right = applied
             /\ chain'.effects = chain.effects
             /\ \A effect \in EffectIds :
                  /\ chain'.units[effect].enabled = chain.units[effect].enabled
                  /\ chain'.units[effect].calls =
                       chain.units[effect].calls + Times(applied, effect)
     /\ \A name \in EffectNames :
          (RemoveEffect(name) /\ \A i \in 1..Len(chain.effects) :
                                    GetName(chain.effects[i]) # name) =>
             /\ chainOut'.err = ErrEffectNotFound
             /\ chain' = chain]_vars

\* a stereo buffer has gone through a chain of three effects of which the
\* middle one is disabled, after an earlier pass
C30_Witness ==
  /\ chainOut.passes = 2
  /\ chain.enabled
  /\ Len(chain.effects) = 3
  /\ ~chain.units[chain.effects[2]].enabled
  /\ chain.effects[1] # chain.effects[3]
  /\ chainOut.right = <<chain.effects[1], chain.effects[3]>>


\* the goroutines that are inside processAudio
Activations == {i \in ProcIds : procs[i].pc \notin {"none", "idle", "stopLock",
                                                     "seekLock", "tickLock"}}

\* C31: at any time at most one activation of processAudio is running, across
\* gapless swaps and any sequence of Play and Pause calls.
C31_SingleActivation == Cardinality(Activations) <= 1

\* (two activations about to call Decode on the same decoder)
C31_TwoDecoding ==
  ~ \E i, j \in ProcIds :
      /\ i # j
      /\ procs[i].pc = "paDecode"
      /\ procs[j].pc = "paDecode"
      /\ procs[i].dec = procs[j].dec

\* C32: Queue.Peek returns the track the next call of Queue.Next returns, in
\* every repeat mode and at every position, and changes neither the position
\* nor the tracks.
C32_PeekIsNext ==
  [][/\ PeekNextTrack => queue' = queue
     /\ (QueueNextCall /\ got.asked /\ got.at = queue) =>
           got'.next = got.peek]_vars

\* (the same with the repeat mode "one" left out)
C32_PeekIsNextOffAll ==
  [][(QueueNextCall /\ got.asked /\ got.at = queue
        /\ queue.repeat # RepeatOne) =>
           got'.next = got.peek]_vars

\* C33: the teardown of a Stop never closes or clears a decoder opened by a
\* Load that succeeded after that Stop, and a Play that follows such a Load
\* does not fail with NoTrackLoaded.
C33_StopSparesLaterLoad ==
  [][window.kind = "load" =>
       /\ StopTeardown => UNCHANGED <<decoder, decs>>
       /\ Play => result' # "NoTrackLoaded"]_vars

\* the active slot holds an open decoder
ActiveOpen == decoder # NIL /\ decs[decoder].st = "open"

\* C34: while the player is Playing or Paused the active slot holds an open
\* decoder, and a Load that fails to create its decoder leaves the decoder
\* loaded before, the current track and the state as they were.
C34_PlayingHasDecoder ==
  /\ [](state \in {StatePlaying, StatePaused} => ActiveOpen)
  /\ [][(\E l \in TrackLens : Load(1, FALSE, l)) =>
          UNCHANGED <<decoder, decs, currentTrack, state>>]_vars

\* C35: the only open decoders are the ones in the active slot and in the
\* next slot, and a SetNextTrack that replaces a next decoder closes it.
C35_OpenDecodersOwned ==
  \A d \in DecIds : decs[d].st = "open" => d \in {decoder, nextDecoder}

\* (every decoder is closed once Close has returned)
C35_ClosedAfterClose ==
  closing = "closed" => \A d \in DecIds : decs[d].st # "open"

\* C36: once every fade-out started by Pause has finished, the volume of
\* the output device is the player's volume, whatever SetVolume, Play and
\* Pause calls ran beside the fade.
C36_VolumeRestored ==
  (\A f \in 1..Len(fades) : fades[f].pc = "done") => outVolume = volume

\* C37: a Decode that returns n samples per channel and no error has moved
\* CurrentSample forward by exactly n, the last partial read at the end of
\* the stream included.
C37_PositionAccounting ==
  [][(Decode /\ ret'.err = "nil") =>
        dcd'.currentSample = dcd.currentSample + ret'.n]_vars

\* (the same for the reads that do not meet the end of the stream)
C37_PositionAccountingInside ==
  [][(Decode /\ ret'.err = "nil" /\ ~ret'.atEnd) =>
        dcd'.currentSample = dcd.currentSample + ret'.n]_vars

\* the other caller's operation, and the Process call, each as one step
OtherOp(f) ==
  IF filt.other = "Reset" THEN BiquadReset(f) ELSE SetCoefficients(f, filt.c)

WholeProcess(f) ==
  IF filt.stereo
  THEN LET r == BiquadProcessStereo(f, filt.left, filt.right)
       IN <<r.f, r.left, r.right>>
  ELSE LET r == BiquadProcess(f, filt.left)
       IN <<r.f, r.out, <<>>>>

\* the filter and the outputs of the two serial orders
SerialOutcomes ==
  {WholeProcess(OtherOp(filt.f0)),
   LET p == WholeProcess(filt.f0) IN <<OtherOp(p[1]), p[2], p[3]>>}

\* C38: when a Process or ProcessStereo call has run beside a Reset or a
\* SetCoefficients call, the filter's fields and the samples written are
\* those of one of the two serial orders of the calls.
C38_BiquadAtomic ==
  (filt.pc = "done" /\ filt.otherDone) =>
     <<filt.f, filt.outL, filt.outR>> \in SerialOutcomes

\* (the same for SetCoefficients as the other call)
C38_BiquadAtomicCoefficients ==
  (filt.pc = "done" /\ filt.otherDone /\ filt.other = "SetCoefficients") =>
     <<filt.f, filt.outL, filt.outR>> \in SerialOutcomes

\* C39: the slice the decode loop hands to the output holds exactly the
\* samples the Decode call produced, n for each of the decoder's channels,
\* and lies inside the decode buffer, for one and two channels and every
\* count n a decoder returns.
C39_OutputSliceExact ==
  [][(Decode /\ ret'.err = "nil" /\ ret'.n > 0) =>
        LET samples == OutputSlice(ret'.n, media.buf)
        IN /\ ~samples.panic
           /\ samples.len = ret'.n * media.channels]_vars

\* (the same for the decoders of two channels)
C39_OutputSliceStereo ==
  [][(Decode /\ ret'.err = "nil" /\ ret'.n > 0 /\ media.channels = 2) =>
        LET samples == OutputSlice(ret'.n, media.buf)
        IN /\ ~samples.panic
           /\ samples.len = ret'.n * media.channels]_vars

\* TrackIDs[i] is the ID of Tracks[i]
Aligned ==
  /\ Len(playlist.TrackIDs) = Len(playlist.Tracks)
  /\ \A i \in 1..Len(playlist.Tracks) :
       playlist.TrackIDs[i] = playlist.Tracks[i].ID

\* the last call was a MoveTrack(from, to) with from # to that returned nil
Moved ==
  /\ moved.op = "MoveTrack"
  /\ moved.err = "nil"
  /\ moved.fromPos # moved.toPos

\* the track count, the order of the other tracks and the alignment of the
\* two slices are kept
RestKept ==
  /\ Len(playlist.Tracks) = Len(moved.tracks)
  /\ \E at \in 0..(Len(playlist.Tracks) - 1) :
       /\ playlist.Tracks[at + 1] = moved.tracks[moved.fromPos + 1]
       /\ Cut(playlist.Tracks, at) = Cut(moved.tracks, moved.fromPos)
  /\ Aligned

\* C40: after a MoveTrack(from, to) with from # to that returned nil, the
\* track that was at index from is at index to, the other tracks keep their
\* order, the count is unchanged and TrackIDs[i] is the ID of Tracks[i].
C40_MoveTrackMoves ==
  Moved =>
    /\ playlist.Tracks[moved.toPos + 1] = moved.tracks[moved.fromPos + 1]
    /\ Cut(playlist.Tracks, moved.toPos) = Cut(moved.tracks, moved.fromPos)
    /\ Len(playlist.Tracks) = Len(moved.tracks)
    /\ Aligned

\* (the moves towards the front, and what every move keeps)
C40_MoveTrackBackwards ==
  Moved =>
    /\ RestKept
    /\ moved.toPos < moved.fromPos =>
         playlist.Tracks[moved.toPos + 1] = moved.tracks[moved.fromPos + 1]
================================================================
